---- MODULE Spec2Model ----
(***************************************************************************)
(* A model of gsapi/midiio.py: the VarLen codec, the event registry, the   *)
(* binary event encoder (FileWriter), the binary event decoder             *)
(* (FileReader) and the Pattern/Track containers they work on.             *)
(*                                                                         *)
(* The module is Python 2 code (trackdata.next(), xrange, __metaclass__,   *)
(* str compared with the bytes read from the file), and it is modelled     *)
(* with Python 2 semantics: a byte string is a sequence of integers        *)
(* 0..255, an iterator over a byte string is the pair (string, number of   *)
(* bytes consumed), and next() on an exhausted iterator raises             *)
(* StopIteration.                                                          *)
(***************************************************************************)
EXTENDS Integers, Sequences, FiniteSets, TLC

VARIABLES
    pc,             \* where the single thread of control is
    pattern,        \* the Pattern the application builds and writes
    midifile,       \* the bytes of the file
    fpos,           \* the read position of the open file
    origin,         \* how the bytes of the file came to be
    wi,             \* FileWriter.write: index of the next track to write
    wRunningStatus, \* FileWriter.RunningStatus
    wresult,        \* how write_midifile ended
    rpattern,       \* FileReader.read: the pattern being filled
    ri,             \* FileReader.read: index of the next track to parse
    rRunningStatus, \* FileReader.RunningStatus
    rresult,        \* how read_midifile ended
    rret,           \* what read_midifile returned
    rerr,           \* the exception that ended read_midifile
    rtrunc,         \* a track's bytes ran out in the middle of an event
    handle,         \* the file object write_midifile or read_midifile opened
    vl,             \* the VarLen codec: last argument and results
    cpat,           \* containers: the Pattern whose ticks are converted
    corig,          \* containers: cpat as it was when its tracks last changed
    chist,          \* containers: the conversion calls made since then
    regEvents,      \* EventRegistry.Events
    regMetaEvents,  \* EventRegistry.MetaEvents
    classes,        \* the event classes that exist, in the order of definition
    regtry,         \* the last class statement and the registry it met
    gpat,           \* gspattern: the Pattern of tagged events
    gcall,          \* gspattern: the last call made on it
    objs,           \* event objects: each with a reference to its data list
    heap,           \* event objects: the data lists, by reference
    ecall           \* event objects: the last accessor call and the lists before it

codecVars == <<pc, pattern, midifile, fpos, origin, wi, wRunningStatus, wresult,
               rpattern, ri, rRunningStatus, rresult, rret, rerr, rtrunc, handle>>
containerVars == <<cpat, corig, chist>>
registryVars == <<regEvents, regMetaEvents, classes, regtry>>
gsVars == <<gpat, gcall>>
objectVars == <<objs, heap, ecall>>
otherVars == <<containerVars, registryVars, gsVars, objectVars>>
vars == <<codecVars, vl, otherVars>>

(***************************************************************************)
(* Bounds of the model.                                                    *)
(***************************************************************************)
MaxEvents == 3      \* events of a pattern built by the application
MaxTracks == 2      \* tracks of a pattern built by the application
MaxRawLen == 5      \* bytes of a hand-made track body
MaxExtra == 2       \* bytes a hand-made track header declares too many
MaxSmall == 300     \* VarLen arguments 0..MaxSmall besides the boundary values
MaxTickTracks == 1  \* tracks of a pattern whose ticks are converted
MaxTickEvents == 2  \* events of each of these tracks
MaxCalls == 2       \* conversion calls in a row
MaxExtraClasses == 2 \* event classes the application defines
MaxGsEvents == 3     \* events of a gspattern Pattern
MaxPad == 9            \* padding bytes in a file header
MaxObjects == 3        \* event objects
MaxTick == 960         \* ticks of a track that is sliced
MaxShortLen == 4       \* bytes of the track body of a short hand-made file

\* Python integers are unbounded; the model's saturate here.  No formula
\* reads a value that has saturated.
IntCap == 127 * 16777216 + 16777215

None == -1          \* Python's None where an integer is expected

Min(a, b) == IF a < b THEN a ELSE b

BoundedSeq(S, n) == UNION {[1..k -> S] : k \in 0..n}

(***************************************************************************)
(* UTILS: read_varlen / write_varlen                                       *)
(***************************************************************************)

\* The loop of read_varlen over the iterator (data, pos).  stop = TRUE when
\* data.next() raised StopIteration; pos counts the bytes consumed.
RECURSIVE read_varlen_loop(_, _, _)
read_varlen_loop(data, pos, value) ==
    IF pos >= Len(data)
    THEN [stop |-> TRUE, value |-> value, pos |-> pos]
    ELSE LET char == data[pos + 1]
             shifted == IF value >= 16777216 THEN IntCap
                        ELSE value * 128 + (char % 128)
         IN  IF char < 128
             THEN [stop |-> FALSE, value |-> shifted, pos |-> pos + 1]
             ELSE read_varlen_loop(data, pos + 1, shifted)

\* A read_varlen that does not mask out the 8th bit of a byte.
RECURSIVE read_varlen_loop_NoMask(_, _, _)
read_varlen_loop_NoMask(data, pos, value) ==
    IF pos >= Len(data)
    THEN [stop |-> TRUE, value |-> value, pos |-> pos]
    ELSE LET char == data[pos + 1]
             shifted == IF value >= 16777216 THEN IntCap
                        ELSE value * 128 + char
         IN  IF char < 128
             THEN [stop |-> FALSE, value |-> shifted, pos |-> pos + 1]
             ELSE read_varlen_loop_NoMask(data, pos + 1, shifted)

read_varlen_NoMask(data, pos) == read_varlen_loop_NoMask(data, pos, 0)

read_varlen(data, pos) == read_varlen_loop(data, pos, 0)

\* A write_varlen that forgets the continuation bit of the third group.
write_varlen_NoContinuation(value) ==
    LET chr1 == value % 128
        v1 == value \div 128
        chr2 == (v1 % 128) + 128
        v2 == v1 \div 128
        chr3 == v2 % 128
        v3 == v2 \div 128
        chr4 == (v3 % 128) + 128
    IN  IF v1 # 0
        THEN IF v2 # 0
             THEN IF v3 # 0
                  THEN <<chr4, chr3, chr2, chr1>>
                  ELSE <<chr3, chr2, chr1>>
             ELSE <<chr2, chr1>>
        ELSE <<chr1>>

\* value & 0x7F is value % 128, value >>= 7 is value \div 128, and
\* (x & 0x7F) | 0x80 is (x % 128) + 128.
write_varlen(value) ==
    LET chr1 == value % 128
        v1 == value \div 128
        chr2 == (v1 % 128) + 128
        v2 == v1 \div 128
        chr3 == (v2 % 128) + 128
        v3 == v2 \div 128
        chr4 == (v3 % 128) + 128
    IN  IF v1 # 0
        THEN IF v2 # 0
             THEN IF v3 # 0
                  THEN <<chr4, chr3, chr2, chr1>>
                  ELSE <<chr3, chr2, chr1>>
             ELSE <<chr2, chr1>>
        ELSE <<chr1>>

(***************************************************************************)
(* EVENTS: the registry the metaclass fills when the classes are defined.  *)
(***************************************************************************)

\* EventRegistry.Events: statusmsg -> length of the class registered under
\* it.  SysexEvent derives from Event, so register_event puts it here too,
\* under 0xF0, with its length 'varlen' (VarlenLength).
VarlenLength == "varlen"

Events ==
    [k \in {128, 144, 160, 176, 192, 208, 224, 240} |->
        CASE k = 128 -> 2        \* NoteOffEvent
          [] k = 144 -> 2        \* NoteOnEvent
          [] k = 160 -> 2        \* AfterTouchEvent
          [] k = 176 -> 2        \* ControlChangeEvent
          [] k = 192 -> 1        \* ProgramChangeEvent
          [] k = 208 -> 1        \* ChannelAfterTouchEvent
          [] k = 224 -> 2        \* PitchWheelEvent
          [] k = 240 -> VarlenLength]

\* The keys of EventRegistry.MetaEvents (UnknownMetaEvent has metacommand
\* None and is not registered).
MetaEvents == {0, 1, 2, 3, 4, 5, 6, 7, 8, 32, 33, 46, 47, 81, 84, 88, 89, 127}

\* An event object: its class (Event stands for the channel-event classes,
\* told apart by statusmsg; MetaEvent for the registered meta classes, told
\* apart by metacommand), and its attributes.  MetaEvent has no channel.
MkEvent(tick, statusmsg, channel, data) ==
    [cls |-> "Event", tick |-> tick, statusmsg |-> statusmsg, channel |-> channel,
     metacommand |-> None, data |-> data]

MkSysexEvent(tick, data) ==
    [cls |-> "SysexEvent", tick |-> tick, statusmsg |-> 240, channel |-> 0,
     metacommand |-> None, data |-> data]

MkMetaEvent(tick, metacommand, data) ==
    [cls |-> IF metacommand \in MetaEvents THEN "MetaEvent" ELSE "UnknownMetaEvent",
     tick |-> tick, statusmsg |-> 255, channel |-> None,
     metacommand |-> metacommand, data |-> data]

NoEvent ==
    [cls |-> "None", tick |-> None, statusmsg |-> None, channel |-> None,
     metacommand |-> None, data |-> <<>>]

IsMetaEvent(event) == event.cls \in {"MetaEvent", "UnknownMetaEvent"}
IsSysexEvent(event) == event.cls = "SysexEvent"
IsChannelEvent(event) == event.cls = "Event"

(***************************************************************************)
(* CONTAINERS                                                              *)
(***************************************************************************)
MkTrack(events) == [tick_relative |-> TRUE, events |-> events]

MkPattern(tracks, resolution, frmt) ==
    [frmt |-> frmt, resolution |-> resolution, tick_relative |-> TRUE,
     tracks |-> tracks]

NoPattern == [frmt |-> None, resolution |-> None, tick_relative |-> TRUE,
              tracks |-> <<>>]

(***************************************************************************)
(* struct.pack / struct.unpack, big-endian                                 *)
(***************************************************************************)
PackL(n) == <<(n \div 16777216) % 256, (n \div 65536) % 256, (n \div 256) % 256, n % 256>>
PackH(n) == <<(n \div 256) % 256, n % 256>>
UnpackL(s) == ((s[1] * 256 + s[2]) * 256 + s[3]) * 256 + s[4]
UnpackH(s) == s[1] * 256 + s[2]

MThd == <<77, 84, 104, 100>>
MTrk == <<77, 84, 114, 107>>

\* midifile.read(n) at position pos: the bytes, at most n of them.
FileRead(file, pos, n) == SubSeq(file, pos + 1, Min(pos + n, Len(file)))

(***************************************************************************)
(* FileWriter                                                              *)
(***************************************************************************)

\* An encode_midi_event that compares only the kind with the running
\* status, not the channel.
encode_midi_event_IgnoreChannel(event, RunningStatus) ==
    LET delta == write_varlen(event.tick)
    IN  IF IsMetaEvent(event)
        THEN [bytes |-> delta \o <<event.statusmsg, event.metacommand>>
                              \o write_varlen(Len(event.data)) \o event.data,
              RunningStatus |-> RunningStatus]
        ELSE IF IsSysexEvent(event)
        THEN [bytes |-> delta \o <<240>> \o event.data \o <<247>>,
              RunningStatus |-> RunningStatus]
        ELSE IF RunningStatus = NoEvent
                \/ RunningStatus.statusmsg # event.statusmsg
             THEN [bytes |-> delta \o <<event.statusmsg + event.channel>> \o event.data,
                   RunningStatus |-> event]
             ELSE [bytes |-> delta \o event.data, RunningStatus |-> RunningStatus]

\* An encode_midi_event that forgets the running status at a meta or sysex
\* event.
encode_midi_event_MetaResets(event, RunningStatus) ==
    LET delta == write_varlen(event.tick)
    IN  IF IsMetaEvent(event)
        THEN [bytes |-> delta \o <<event.statusmsg, event.metacommand>>
                              \o write_varlen(Len(event.data)) \o event.data,
              RunningStatus |-> NoEvent]
        ELSE IF IsSysexEvent(event)
        THEN [bytes |-> delta \o <<240>> \o event.data \o <<247>>,
              RunningStatus |-> NoEvent]
        ELSE IF RunningStatus = NoEvent
                \/ RunningStatus.statusmsg # event.statusmsg
                \/ RunningStatus.channel # event.channel
             THEN [bytes |-> delta \o <<event.statusmsg + event.channel>> \o event.data,
                   RunningStatus |-> event]
             ELSE [bytes |-> delta \o event.data, RunningStatus |-> RunningStatus]

\* An encode_midi_event that compares only the channel with the running
\* status, not the kind.
encode_midi_event_IgnoreKind(event, RunningStatus) ==
    LET delta == write_varlen(event.tick)
    IN  IF IsMetaEvent(event)
        THEN [bytes |-> delta \o <<event.statusmsg, event.metacommand>>
                              \o write_varlen(Len(event.data)) \o event.data,
              RunningStatus |-> RunningStatus]
        ELSE IF IsSysexEvent(event)
        THEN [bytes |-> delta \o <<240>> \o event.data \o <<247>>,
              RunningStatus |-> RunningStatus]
        ELSE IF RunningStatus = NoEvent
                \/ RunningStatus.channel # event.channel
             THEN [bytes |-> delta \o <<event.statusmsg + event.channel>> \o event.data,
                   RunningStatus |-> event]
             ELSE [bytes |-> delta \o event.data, RunningStatus |-> RunningStatus]

\* encode_midi_event: the bytes of one event and the writer's RunningStatus
\* afterwards.  RunningStatus is None (NoEvent) or the last channel event
\* written with its status byte; an event object is always true, so `not
\* self.RunningStatus` is `RunningStatus is None`.  statusmsg | channel is
\* their sum: statusmsg has a zero low nibble and channel is 0..15.
encode_midi_event(event, RunningStatus) ==
    LET delta == write_varlen(event.tick)
    IN  IF IsMetaEvent(event)
        THEN [bytes |-> delta \o <<event.statusmsg, event.metacommand>>
                              \o write_varlen(Len(event.data)) \o event.data,
              RunningStatus |-> RunningStatus]
        ELSE IF IsSysexEvent(event)
        THEN [bytes |-> delta \o <<240>> \o event.data \o <<247>>,
              RunningStatus |-> RunningStatus]
        ELSE IF RunningStatus = NoEvent
                \/ RunningStatus.statusmsg # event.statusmsg
                \/ RunningStatus.channel # event.channel
             THEN [bytes |-> delta \o <<event.statusmsg + event.channel>> \o event.data,
                   RunningStatus |-> event]
             ELSE [bytes |-> delta \o event.data, RunningStatus |-> RunningStatus]

\* The loop of write_track: buf and RunningStatus after events i..Len.
RECURSIVE write_track_loop(_, _, _, _)
write_track_loop(events, i, buf, RunningStatus) ==
    IF i > Len(events)
    THEN [buf |-> buf, RunningStatus |-> RunningStatus]
    ELSE LET e == encode_midi_event(events[i], RunningStatus)
         IN  write_track_loop(events, i + 1, buf \o e.bytes, e.RunningStatus)

encode_track_header(trklen) == MTrk \o PackL(trklen)

\* A write_track that goes on with the RunningStatus the writer has.
write_track_KeepStatus(track) ==
    LET r == write_track_loop(track.events, 1, <<>>, wRunningStatus)
    IN  [bytes |-> encode_track_header(Len(r.buf)) \o r.buf,
         RunningStatus |-> r.RunningStatus]

\* A write_track whose header counts its own eight bytes too.
write_track_CountHeader(track) ==
    LET r == write_track_loop(track.events, 1, <<>>, NoEvent)
    IN  [bytes |-> encode_track_header(Len(r.buf) + 8) \o r.buf,
         RunningStatus |-> r.RunningStatus]

\* write_track: what it writes to the file, and RunningStatus afterwards.
write_track(track) ==
    LET r == write_track_loop(track.events, 1, <<>>, NoEvent)
    IN  [bytes |-> encode_track_header(Len(r.buf)) \o r.buf,
         RunningStatus |-> r.RunningStatus]

write_file_header(p) ==
    MThd \o PackL(6) \o PackH(p.frmt) \o PackH(Len(p.tracks)) \o PackH(p.resolution)

(***************************************************************************)
(* FileReader                                                              *)
(***************************************************************************)

\* What one call of parse_midi_event does: it returns an event, or
\* trackdata.next() raises StopIteration (mid: after the call consumed at
\* least one byte), or another exception is raised.  pos: bytes of the
\* track consumed so far.
Parsed(event, pos, RunningStatus) ==
    [status |-> "event", event |-> event, pos |-> pos,
     RunningStatus |-> RunningStatus, err |-> "", mid |-> FALSE]

Stopped(mid, RunningStatus) ==
    [status |-> "stop", event |-> NoEvent, pos |-> 0,
     RunningStatus |-> RunningStatus, err |-> "StopIteration", mid |-> mid]

Raised(err, RunningStatus) ==
    [status |-> "error", event |-> NoEvent, pos |-> 0,
     RunningStatus |-> RunningStatus, err |-> err, mid |-> TRUE]

\* [ord(trackdata.next()) for x in range(n)] from position pos.
TakeBytes(data, pos, n) == SubSeq(data, pos + 1, pos + n)

\* A MetaEvent branch that looks the command up without the membership
\* test: EventRegistry.MetaEvents[cmd] raises KeyError.
parse_meta_event_KeyError(data, pos, tick, RunningStatus) ==
    IF pos >= Len(data) THEN Stopped(TRUE, RunningStatus)
    ELSE LET cmd == data[pos + 1]
             datalen == read_varlen(data, pos + 1)
         IN  IF cmd \notin MetaEvents THEN Raised("KeyError", RunningStatus)
             ELSE IF datalen.stop THEN Stopped(TRUE, RunningStatus)
             ELSE IF datalen.value > Len(data) - datalen.pos
                  THEN Stopped(TRUE, RunningStatus)
                  ELSE Parsed(MkMetaEvent(tick, cmd,
                                          TakeBytes(data, datalen.pos, datalen.value)),
                              datalen.pos + datalen.value, RunningStatus)

\* A MetaEvent branch that takes the data as a slice of datalen bytes, which
\* is shorter when the track ends before, and moves on by datalen.
parse_meta_event_Slice(data, pos, tick, RunningStatus) ==
    IF pos >= Len(data) THEN Stopped(TRUE, RunningStatus)
    ELSE LET cmd == data[pos + 1]
             datalen == read_varlen(data, pos + 1)
         IN  IF datalen.stop THEN Stopped(TRUE, RunningStatus)
             ELSE Parsed(MkMetaEvent(tick, cmd,
                                     FileRead(data, datalen.pos, datalen.value)),
                         datalen.pos + datalen.value, RunningStatus)

\* The MetaEvent branch, after the 0xFF at position pos has been read.
\* The warning logged for an unregistered command raises nothing.
parse_meta_event(data, pos, tick, RunningStatus) ==
    IF pos >= Len(data) THEN Stopped(TRUE, RunningStatus)
    ELSE LET cmd == data[pos + 1]
             datalen == read_varlen(data, pos + 1)
         IN  IF datalen.stop THEN Stopped(TRUE, RunningStatus)
             ELSE IF datalen.value > Len(data) - datalen.pos
                  THEN Stopped(TRUE, RunningStatus)
                  ELSE Parsed(MkMetaEvent(tick, cmd,
                                          TakeBytes(data, datalen.pos, datalen.value)),
                              datalen.pos + datalen.value, RunningStatus)

\* The position of the first 0xF7 after pos, 0 when there is none.
RECURSIVE FindTerminator(_, _)
FindTerminator(data, pos) ==
    IF pos >= Len(data) THEN 0
    ELSE IF data[pos + 1] = 247 THEN pos + 1
    ELSE FindTerminator(data, pos + 1)

\* A SysexEvent branch that appends the terminator to the data before it
\* leaves the loop.
parse_sysex_event_KeepTerminator(data, pos, tick, RunningStatus) ==
    LET end == FindTerminator(data, pos)
    IN  IF end = 0 THEN Stopped(TRUE, RunningStatus)
        ELSE Parsed(MkSysexEvent(tick, SubSeq(data, pos + 1, end)),
                    end, RunningStatus)

\* The SysexEvent branch, after the 0xF0 has been read.
parse_sysex_event(data, pos, tick, RunningStatus) ==
    LET end == FindTerminator(data, pos)
    IN  IF end = 0 THEN Stopped(TRUE, RunningStatus)
        ELSE Parsed(MkSysexEvent(tick, SubSeq(data, pos + 1, end - 1)),
                    end, RunningStatus)

\* A channel-event branch that takes a data byte in status position for a
\* note-on on channel 0 when no running status is set.
parse_channel_event_DefaultStatus(data, pos, tick, stsmsg, RunningStatus) ==
    LET key == stsmsg - (stsmsg % 16)
        rs == IF RunningStatus = None THEN 144 ELSE RunningStatus
        rkey == rs - (rs % 16)
    IN  IF key \notin DOMAIN Events
        THEN IF rkey = 240 THEN Raised("TypeError", rs)
             ELSE IF Events[rkey] - 1 > Len(data) - pos
                  THEN Stopped(TRUE, rs)
                  ELSE Parsed(MkEvent(tick, rkey, rs % 16,
                                      <<stsmsg>> \o TakeBytes(data, pos, Events[rkey] - 1)),
                              pos + Events[rkey] - 1, rs)
        ELSE IF key = 240 THEN Raised("TypeError", stsmsg)
             ELSE IF Events[key] > Len(data) - pos
                  THEN Stopped(TRUE, stsmsg)
                  ELSE Parsed(MkEvent(tick, key, stsmsg % 16,
                                      TakeBytes(data, pos, Events[key])),
                              pos + Events[key], stsmsg)

\* The general-message branch, after the byte stsmsg has been read.
\* stsmsg & 0xF0 is stsmsg - stsmsg % 16 and x & 0x0F is x % 16.  The
\* class registered under 0xF0 is SysexEvent, whose length is 'varlen':
\* range(cls.length) raises TypeError (bytes 0xF1..0xFE get there).
\* RunningStatus None fails the assert (an AssertionError; with asserts
\* compiled out, None & 0xF0 raises TypeError: an exception either way).
parse_channel_event(data, pos, tick, stsmsg, RunningStatus) ==
    LET key == stsmsg - (stsmsg % 16)
        rkey == RunningStatus - (RunningStatus % 16)
    IN  IF key \notin DOMAIN Events
        THEN IF RunningStatus = None THEN Raised("AssertionError", RunningStatus)
             ELSE IF rkey = 240 THEN Raised("TypeError", RunningStatus)
             ELSE IF Events[rkey] - 1 > Len(data) - pos
                  THEN Stopped(TRUE, RunningStatus)
                  ELSE Parsed(MkEvent(tick, rkey, RunningStatus % 16,
                                      <<stsmsg>> \o TakeBytes(data, pos, Events[rkey] - 1)),
                              pos + Events[rkey] - 1, RunningStatus)
        ELSE IF key = 240 THEN Raised("TypeError", stsmsg)
             ELSE IF Events[key] > Len(data) - pos
                  THEN Stopped(TRUE, stsmsg)
                  ELSE Parsed(MkEvent(tick, key, stsmsg % 16,
                                      TakeBytes(data, pos, Events[key])),
                              pos + Events[key], stsmsg)

parse_midi_event(data, pos, RunningStatus) ==
    LET tick == read_varlen(data, pos)
    IN  IF tick.stop THEN Stopped(tick.pos > pos, RunningStatus)
        ELSE IF tick.pos >= Len(data) THEN Stopped(TRUE, RunningStatus)
        ELSE LET stsmsg == data[tick.pos + 1]
                 p == tick.pos + 1
             IN  IF stsmsg = 255
                 THEN parse_meta_event(data, p, tick.value, RunningStatus)
                 ELSE IF stsmsg = 240
                 THEN parse_sysex_event(data, p, tick.value, RunningStatus)
                 ELSE parse_channel_event(data, p, tick.value, stsmsg, RunningStatus)

\* A loop of parse_track whose except clause catches every exception.
RECURSIVE parse_track_loop_CatchAll(_, _, _, _)
parse_track_loop_CatchAll(data, pos, RunningStatus, events) ==
    LET r == parse_midi_event(data, pos, RunningStatus)
    IN  IF r.status = "event"
        THEN parse_track_loop_CatchAll(data, r.pos, r.RunningStatus, Append(events, r.event))
        ELSE [events |-> events, RunningStatus |-> r.RunningStatus,
              err |-> "", mid |-> r.mid]

\* The loop of parse_track: events appended until StopIteration (break) or
\* another exception (which leaves parse_track and read).
RECURSIVE parse_track_loop(_, _, _, _)
parse_track_loop(data, pos, RunningStatus, events) ==
    LET r == parse_midi_event(data, pos, RunningStatus)
    IN  IF r.status = "event"
        THEN parse_track_loop(data, r.pos, r.RunningStatus, Append(events, r.event))
        ELSE [events |-> events, RunningStatus |-> r.RunningStatus,
              err |-> IF r.status = "error" THEN r.err ELSE "",
              mid |-> r.mid]

\* A parse_track_header that does not compare the magic.
parse_track_header_NoMagic(file, pos) ==
    LET size == FileRead(file, pos + 4, 4)
    IN  IF Len(size) < 4 THEN [err |-> "struct.error", trksz |-> 0, pos |-> pos]
        ELSE [err |-> "", trksz |-> UnpackL(size), pos |-> pos + 8]

\* parse_track_header at file position pos.  raise(TypeError, "...") raises
\* TypeError; unpack of fewer than 4 bytes raises struct.error.
parse_track_header(file, pos) ==
    LET magic == FileRead(file, pos, 4)
        size == FileRead(file, pos + 4, 4)
    IN  IF magic # MTrk THEN [err |-> "TypeError", trksz |-> 0, pos |-> pos]
        ELSE IF Len(size) < 4 THEN [err |-> "struct.error", trksz |-> 0, pos |-> pos]
        ELSE [err |-> "", trksz |-> UnpackL(size), pos |-> pos + 8]

DEFAULT_MIDI_HEADER_SIZE == 14

\* A parse_file_header that does not compare the magic.
parse_file_header_NoMagic(file) ==
    LET data == FileRead(file, 4, 10)
        hdrsz == UnpackL(SubSeq(data, 1, 4))
    IN  IF Len(data) < 10 THEN [err |-> "struct.error", pattern |-> NoPattern, pos |-> 0]
        ELSE [err |-> "",
              pattern |-> MkPattern([x \in 1..UnpackH(SubSeq(data, 7, 8)) |-> MkTrack(<<>>)],
                                    UnpackH(SubSeq(data, 9, 10)),
                                    UnpackH(SubSeq(data, 5, 6))),
              pos |-> IF hdrsz > DEFAULT_MIDI_HEADER_SIZE
                      THEN Min(14 + hdrsz - DEFAULT_MIDI_HEADER_SIZE, Len(file))
                      ELSE 14]

\* parse_file_header: the Pattern of empty tracks and the file position
\* after the header (the padding is skipped only beyond
\* DEFAULT_MIDI_HEADER_SIZE).
parse_file_header(file) ==
    LET magic == FileRead(file, 0, 4)
        data == FileRead(file, 4, 10)
        hdrsz == UnpackL(SubSeq(data, 1, 4))
    IN  IF magic # MThd THEN [err |-> "TypeError", pattern |-> NoPattern, pos |-> 0]
        ELSE IF Len(data) < 10 THEN [err |-> "struct.error", pattern |-> NoPattern, pos |-> 0]
        ELSE [err |-> "",
              pattern |-> MkPattern([x \in 1..UnpackH(SubSeq(data, 7, 8)) |-> MkTrack(<<>>)],
                                    UnpackH(SubSeq(data, 9, 10)),
                                    UnpackH(SubSeq(data, 5, 6))),
              pos |-> IF hdrsz > DEFAULT_MIDI_HEADER_SIZE
                      THEN Min(14 + hdrsz - DEFAULT_MIDI_HEADER_SIZE, Len(file))
                      ELSE 14]

(***************************************************************************)
(* The inputs the model draws from.                                        *)
(***************************************************************************)

\* Events the application appends: channel events of a two-byte and of a
\* one-byte kind on two channels, a registered and an unregistered meta
\* event, a sysex event, with delta-times of one to four VarLen bytes; and
\* a note-on whose data list is one byte short; and the note-off of the
\* note-on/note-off scenario.
EventInputs ==
    { MkEvent(0, 144, 0, <<60, 100>>),
      MkEvent(128, 144, 15, <<0, 127>>),
      MkEvent(16384, 192, 0, <<5>>),
      MkMetaEvent(0, 47, <<>>),
      MkMetaEvent(268435455, 124, <<255, 1>>),
      MkSysexEvent(2097152, <<126, 255>>),
      MkEvent(0, 144, 0, <<60>>),
      MkEvent(480, 128, 0, <<60, 0>>) }

\* Bytes of a hand-made track body: two data bytes, the unregistered meta
\* command 0x7C, 0x80 (note-off status and VarLen continuation), the sysex
\* lead and terminator, the meta lead.
RawBytes == {0, 1, 124, 128, 240, 247, 255}

\* The arguments of write_varlen: small values, and the values around the
\* limits of one, two, three and four 7-bit groups.
VarlenInputs ==
    (0..MaxSmall)
    \cup {16383, 16384, 16385, 2097151, 2097152, 2097153,
          268435454, 268435455, 268435456, 268435457, 536870912, 2147483647}

NumEvents(p) ==
    LET RECURSIVE Sum(_)
        Sum(i) == IF i = 0 THEN 0 ELSE Len(p.tracks[i].events) + Sum(i - 1)
    IN  Sum(Len(p.tracks))

(***************************************************************************)
(* The state after construction: an empty Pattern(), no file yet.          *)
(***************************************************************************)
\* raised: write_varlen raised an exception (it has no raise statement).
NoVarlen == [value |-> None, bytes |-> <<>>, raised |-> FALSE,
             stop |-> FALSE, back |-> None, read |-> 0]

\* A class as the metaclass sees it: its name, the names of its bases, and
\* the statusmsg and metacommand attributes it defines or inherits.  serial
\* tells two classes of the same name apart.
MkClass(serial, name, bases, statusmsg, metacommand) ==
    [serial |-> serial, name |-> name, bases |-> bases, statusmsg |-> statusmsg,
     metacommand |-> metacommand]

NoClass == MkClass(0, "", {}, None, None)

\* What the last class statement was and what it met.
NoTry == [cls |-> NoClass, err |-> "", Events |-> <<>>, MetaEvents |-> <<>>]

\* gspattern.Pattern(): no events, duration 0.
NoGsPattern == [duration |-> 0, events |-> <<>>]

\* The last call on the pattern: its arguments (tags, event, m), the events
\* before it, the exception it raised, and for removeOverlapped the
\* positions of the event objects it kept.
NoCall == [op |-> "", tags |-> <<>>, before |-> <<>>, err |-> "", event |-> <<>>,
           m |-> 0, ids |-> <<>>]

NoAccess == [op |-> "", target |-> 0, before |-> <<>>]

Init ==
    /\ pc = "idle"
    /\ pattern = MkPattern(<<>>, 220, 1)
    /\ midifile = <<>>
    /\ fpos = 0
    /\ origin = "none"
    /\ wi = 0
    /\ wRunningStatus = NoEvent
    /\ wresult = "none"
    /\ rpattern = NoPattern
    /\ ri = 0
    /\ rRunningStatus = None
    /\ rresult = "none"
    /\ rret = NoPattern
    /\ rerr = ""
    /\ rtrunc = FALSE
    /\ handle = "none"
    /\ vl = NoVarlen
    /\ cpat = NoPattern
    /\ corig = NoPattern
    /\ chist = <<>>
    /\ regEvents = <<>>
    /\ regMetaEvents = <<>>
    /\ classes = <<>>
    /\ regtry = NoTry
    /\ gpat = NoGsPattern
    /\ gcall = NoCall
    /\ objs = <<>>
    /\ heap = <<>>
    /\ ecall = NoAccess

writerVars == <<wi, wRunningStatus, wresult>>
readerVars == <<rpattern, ri, rRunningStatus, rresult, rret, rerr, rtrunc, fpos>>

(***************************************************************************)
(* The application builds a pattern.                                       *)
(***************************************************************************)

\* pattern.append(Track())
AppendTrack ==
    /\ pc = "idle"
    /\ Len(pattern.tracks) < MaxTracks
    /\ pattern' = [pattern EXCEPT !.tracks = Append(@, MkTrack(<<>>))]
    /\ UNCHANGED <<handle, pc, midifile, origin, writerVars, readerVars, vl, otherVars>>

\* pattern[-1].append(event)
AppendEvent ==
    /\ pc = "idle"
    /\ Len(pattern.tracks) >= 1
    /\ NumEvents(pattern) < MaxEvents
    /\ \E event \in EventInputs :
          pattern' = [pattern EXCEPT !.tracks[Len(pattern.tracks)].events =
                                          Append(@, event)]
    /\ UNCHANGED <<handle, pc, midifile, origin, writerVars, readerVars, vl, otherVars>>

(***************************************************************************)
(* write_midifile: FileWriter.write, one step per call it makes.           *)
(***************************************************************************)

\* write_midifile and read_midifile open the file and never call close():
\* when they return, the file object has lost its last reference, and it is
\* closed when the interpreter reclaims it, at once where objects are
\* reference counted and at some later collection elsewhere.  When they
\* raise, the traceback keeps the frame and with it the open file object.
Unreferenced == {"open", "closed"}

WriteFileHeader ==
    /\ pc = "idle"
    /\ handle' = "open"
    /\ midifile' = write_file_header(pattern)
    /\ wi' = 1
    /\ pc' = "write"
    /\ origin' = "written"
    /\ UNCHANGED <<pattern, wRunningStatus, wresult, readerVars, vl, otherVars>>

WriteTrack ==
    /\ pc = "write"
    /\ wi <= Len(pattern.tracks)
    /\ LET w == write_track(pattern.tracks[wi])
       IN  /\ midifile' = midifile \o w.bytes
           /\ wRunningStatus' = w.RunningStatus
    /\ wi' = wi + 1
    /\ UNCHANGED <<handle, pc, pattern, origin, wresult, readerVars, vl, otherVars>>

WriteReturn ==
    /\ pc = "write"
    /\ wi > Len(pattern.tracks)
    /\ wresult' = "ok"
    /\ handle' \in Unreferenced
    /\ pc' = "file"
    /\ UNCHANGED <<pattern, midifile, origin, wi, wRunningStatus, readerVars, vl, otherVars>>

(***************************************************************************)
(* Files that write_midifile did not make.                                 *)
(***************************************************************************)

\* The offset of the k-th track chunk of a file (k = 0: of the file header),
\* following the declared lengths; -1 when the file ends before it.
RECURSIVE ChunkOffset(_, _)
ChunkOffset(file, k) ==
    IF k = 0 THEN 0
    ELSE IF k = 1 THEN 14
    ELSE LET prev == ChunkOffset(file, k - 1)
         IN  IF prev < 0 \/ prev + 8 > Len(file) THEN 0 - 1
             ELSE prev + 8 + UnpackL(SubSeq(file, prev + 5, prev + 8))

\* A written file is damaged: the first byte of the file magic (k = 0) or of
\* the magic of track chunk k is overwritten.
DamageMagic ==
    /\ pc = "file"
    /\ origin = "written"
    /\ \E k \in 0..Len(pattern.tracks) :
          midifile' = [midifile EXCEPT ![ChunkOffset(midifile, k) + 1] = 0]
    /\ origin' = "damaged"
    /\ UNCHANGED <<handle, pc, pattern, writerVars, readerVars, vl, otherVars>>

\* A file with a well-formed header that declares one track, and one track
\* chunk whose header declares extra bytes more than the body has.
RawTrackFile ==
    /\ pc = "idle"
    /\ pattern.tracks = <<>>
    /\ \E body \in BoundedSeq(RawBytes, MaxRawLen), extra \in {0, MaxExtra} :
          midifile' = MThd \o PackL(6) \o PackH(1) \o PackH(1) \o PackH(220)
                           \o MTrk \o PackL(Len(body) + extra) \o body
    /\ origin' = "raw"
    /\ pc' = "file"
    /\ UNCHANGED <<handle, pattern, writerVars, readerVars, vl, otherVars>>

\* The bytes of the second track of a hand-made file of two tracks: delta
\* times, data bytes and the status byte of a note-off.
RunBytes == {0, 1, 128}

\* A file of two track chunks: the first is empty or holds one note-off with
\* its status byte, the second is made of RunBytes.
RawTwoTracks ==
    /\ pc = "idle"
    /\ pattern.tracks = <<>>
    /\ \E first \in {<<>>, <<0, 128, 0, 0>>}, second \in BoundedSeq(RunBytes, MaxRawLen) :
          midifile' = MThd \o PackL(6) \o PackH(1) \o PackH(2) \o PackH(220)
                           \o MTrk \o PackL(Len(first)) \o first
                           \o MTrk \o PackL(Len(second)) \o second
    /\ origin' = "raw2"
    /\ pc' = "file"
    /\ UNCHANGED <<handle, pattern, writerVars, readerVars, vl, otherVars>>

\* The bytes after the sysex lead of a hand-made track: a data byte, the
\* status byte of a program change, the sysex terminator.
SysexBytes == {1, 192, 247}

\* A file of one track that begins with delta-time 0 and the sysex lead
\* byte, followed by bytes of SysexBytes.
RawSysexFile ==
    /\ pc = "idle"
    /\ pattern.tracks = <<>>
    /\ \E rest \in BoundedSeq(SysexBytes, MaxRawLen) :
          midifile' = MThd \o PackL(6) \o PackH(1) \o PackH(1) \o PackH(220)
                           \o MTrk \o PackL(2 + Len(rest)) \o <<0, 240>> \o rest
    /\ origin' = "sysex"
    /\ pc' = "file"
    /\ UNCHANGED <<handle, pattern, writerVars, readerVars, vl, otherVars>>

\* A file with a well-formed header that declares one track, and one track
\* chunk of up to MaxShortLen bytes of RawBytes.
RawShortFile ==
    /\ pc = "idle"
    /\ pattern.tracks = <<>>
    /\ \E body \in BoundedSeq(RawBytes, MaxShortLen) :
          midifile' = MThd \o PackL(6) \o PackH(1) \o PackH(1) \o PackH(220)
                           \o MTrk \o PackL(Len(body)) \o body
    /\ origin' = "short"
    /\ pc' = "file"
    /\ UNCHANGED <<handle, pattern, writerVars, readerVars, vl, otherVars>>

\* Padding bytes in the header of a hand-made file.
Padding(n) == [i \in 1..n |-> 0]

\* A file whose header declares the length 6 + pad and holds pad bytes of
\* padding after the resolution, followed by one track chunk: empty, a
\* note-off, a note-off and a second one in running status, or an
\* end-of-track meta event.
RawHeaderFile ==
    /\ pc = "idle"
    /\ pattern.tracks = <<>>
    /\ \E pad \in 0..MaxPad,
          body \in {<<>>, <<0, 128, 0, 0>>, <<0, 128, 0, 0, 1, 1, 1>>, <<0, 255, 47, 0>>} :
          midifile' = MThd \o PackL(6 + pad) \o PackH(1) \o PackH(1) \o PackH(220)
                           \o Padding(pad)
                           \o MTrk \o PackL(Len(body)) \o body
    /\ origin' = "header"
    /\ pc' = "file"
    /\ UNCHANGED <<handle, pattern, writerVars, readerVars, vl, otherVars>>

(***************************************************************************)
(* read_midifile: FileReader.read, one step per call it makes.             *)
(***************************************************************************)
ParseFileHeader ==
    /\ pc = "file"
    /\ handle' = "open"
    /\ LET h == parse_file_header(midifile)
       IN  IF h.err # ""
           THEN /\ rresult' = "error"
                /\ rerr' = h.err
                /\ pc' = "returned"
                /\ UNCHANGED <<rpattern, ri, fpos>>
           ELSE /\ rpattern' = h.pattern
                /\ fpos' = h.pos
                /\ ri' = 1
                /\ pc' = "read"
                /\ UNCHANGED <<rresult, rerr>>
    /\ UNCHANGED <<pattern, midifile, origin, writerVars, rRunningStatus, rret, rtrunc, vl, otherVars>>

\* parse_track on track ri of the pattern.
ParseTrack ==
    /\ pc = "read"
    /\ ri <= Len(rpattern.tracks)
    /\ LET h == parse_track_header(midifile, fpos)
           trackdata == FileRead(midifile, h.pos, h.trksz)
           t == parse_track_loop(trackdata, 0, None, <<>>)
       IN  IF h.err # ""
           THEN /\ rresult' = "error"
                /\ rerr' = h.err
                /\ pc' = "returned"
                /\ rRunningStatus' = None
                /\ UNCHANGED <<rpattern, ri, fpos, rtrunc>>
           ELSE /\ rpattern' = [rpattern EXCEPT !.tracks[ri].events = t.events]
                /\ fpos' = h.pos + Len(trackdata)
                /\ rRunningStatus' = t.RunningStatus
                /\ rtrunc' = (rtrunc \/ (t.err = "" /\ t.mid))
                /\ IF t.err # ""
                   THEN /\ rresult' = "error"
                        /\ rerr' = t.err
                        /\ pc' = "returned"
                        /\ ri' = ri
                   ELSE /\ ri' = ri + 1
                        /\ UNCHANGED <<pc, rresult, rerr>>
    /\ UNCHANGED <<handle, pattern, midifile, origin, writerVars, rret, vl, otherVars>>

ReadReturn ==
    /\ pc = "read"
    /\ ri > Len(rpattern.tracks)
    /\ rret' = rpattern
    /\ rresult' = "ok"
    /\ handle' \in Unreferenced
    /\ pc' = "returned"
    /\ UNCHANGED <<pattern, midifile, origin, writerVars, rpattern, ri,
                   rRunningStatus, rerr, rtrunc, fpos, vl, otherVars>>

(***************************************************************************)
(* Calls of the VarLen codec.                                              *)
(***************************************************************************)
CallWriteVarlen ==
    /\ pc = "idle"
    /\ pattern.tracks = <<>>
    /\ \E value \in VarlenInputs :
          vl' = [NoVarlen EXCEPT !.value = value, !.bytes = write_varlen(value)]
    /\ pc' = "varlen"
    /\ UNCHANGED <<handle, pattern, midifile, origin, writerVars, readerVars, otherVars>>

\* read_varlen(iter(bytes)) on the bytes write_varlen returned.
CallReadVarlen ==
    /\ pc = "varlen"
    /\ LET r == read_varlen(vl.bytes, 0)
       IN  vl' = [vl EXCEPT !.stop = r.stop, !.back = r.value, !.read = r.pos]
    /\ pc' = "varlen_read"
    /\ UNCHANGED <<handle, pattern, midifile, origin, writerVars, readerVars, otherVars>>

(***************************************************************************)
(* Specifications.                                                         *)
(***************************************************************************)

\* A pattern is built, written, possibly damaged, and read back.
Next ==
    \/ AppendTrack
    \/ AppendEvent
    \/ WriteFileHeader
    \/ WriteTrack
    \/ WriteReturn
    \/ DamageMagic
    \/ ParseFileHeader
    \/ ParseTrack
    \/ ReadReturn

Spec == Init /\ [][Next]_vars

\* A pattern is built, written and read back, or a hand-made file of two
\* tracks is read.
NextTracks ==
    \/ AppendTrack
    \/ AppendEvent
    \/ WriteFileHeader
    \/ WriteTrack
    \/ WriteReturn
    \/ RawTwoTracks
    \/ ParseFileHeader
    \/ ParseTrack
    \/ ReadReturn

SpecTracks == Init /\ [][NextTracks]_vars

\* A hand-made file is read.
NextRaw ==
    \/ RawTrackFile
    \/ ParseFileHeader
    \/ ParseTrack
    \/ ReadReturn

SpecRaw == Init /\ [][NextRaw]_vars


\* A hand-made file that begins with a sysex event is read.
NextSysex ==
    \/ RawSysexFile
    \/ ParseFileHeader
    \/ ParseTrack
    \/ ReadReturn

SpecSysex == Init /\ [][NextSysex]_vars

\* A hand-made file with a padded header is read.
NextHeader ==
    \/ RawHeaderFile
    \/ ParseFileHeader
    \/ ParseTrack
    \/ ReadReturn

SpecHeader == Init /\ [][NextHeader]_vars

\* A short hand-made file is read.
NextShort ==
    \/ RawShortFile
    \/ ParseFileHeader
    \/ ParseTrack
    \/ ReadReturn

SpecShort == Init /\ [][NextShort]_vars

\* The loop of FileReader.read has a track left to parse: the guard of
\* ParseTrack, which is enabled exactly then.
TrackLeft == pc = "read" /\ ri <= Len(rpattern.tracks)

\* read_midifile runs in one thread, which takes its next step whenever it
\* has one: weak fairness of each step of FileReader.read.  That of
\* ParseTrack is written out, WF_vars(A) being
\* []<>~ENABLED <<A>>_vars \/ []<><<A>>_vars, with TrackLeft for the
\* ENABLED.
FairSpecShort ==
    /\ SpecShort
    /\ WF_vars(ParseFileHeader)
    /\ []<>~TrackLeft \/ []<><<ParseTrack>>_vars
    /\ WF_vars(ReadReturn)

\* The VarLen codec is called.
NextVarlen ==
    \/ CallWriteVarlen
    \/ CallReadVarlen

SpecVarlen == Init /\ [][NextVarlen]_vars

(***************************************************************************)
(* CONTAINERS: Pattern and Track, and their tick conversions.  Every       *)
(* position of a track holds an event object of its own.                   *)
(***************************************************************************)
\* Track(events, tick_relative)
TrackWith(events, tick_relative) == [tick_relative |-> tick_relative, events |-> events]

\* Pattern(tracks, resolution, frmt, tick_relative)
PatternWith(tracks, resolution, frmt, tick_relative) ==
    [frmt |-> frmt, resolution |-> resolution, tick_relative |-> tick_relative,
     tracks |-> tracks]

\* The loop of Track.make_ticks_abs from event i on.
RECURSIVE make_ticks_abs_loop(_, _, _)
make_ticks_abs_loop(events, i, running_tick) ==
    IF i > Len(events) THEN events
    ELSE LET tick == events[i].tick + running_tick
         IN  make_ticks_abs_loop([events EXCEPT ![i].tick = tick], i + 1, tick)

\* A Track.make_ticks_abs without the test of the flag.
Track_make_ticks_abs_NoGuard(track) ==
    [tick_relative |-> FALSE, events |-> make_ticks_abs_loop(track.events, 1, 0)]

Track_make_ticks_abs(track) ==
    IF track.tick_relative
    THEN [tick_relative |-> FALSE, events |-> make_ticks_abs_loop(track.events, 1, 0)]
    ELSE track

\* The loop of Track.make_ticks_rel from event i on.
RECURSIVE make_ticks_rel_loop(_, _, _)
make_ticks_rel_loop(events, i, running_tick) ==
    IF i > Len(events) THEN events
    ELSE LET tick == events[i].tick - running_tick
         IN  make_ticks_rel_loop([events EXCEPT ![i].tick = tick], i + 1,
                                 running_tick + tick)

\* A Track.make_ticks_rel that sets the flag and leaves the ticks.
Track_make_ticks_rel_FlagOnly(track) ==
    IF ~track.tick_relative
    THEN [tick_relative |-> TRUE, events |-> track.events]
    ELSE track

Track_make_ticks_rel(track) ==
    IF ~track.tick_relative
    THEN [tick_relative |-> TRUE, events |-> make_ticks_rel_loop(track.events, 1, 0)]
    ELSE track

Pattern_make_ticks_abs(p) ==
    [p EXCEPT !.tick_relative = FALSE,
              !.tracks = [k \in 1..Len(p.tracks) |-> Track_make_ticks_abs(p.tracks[k])]]

Pattern_make_ticks_rel(p) ==
    [p EXCEPT !.tick_relative = TRUE,
              !.tracks = [k \in 1..Len(p.tracks) |-> Track_make_ticks_rel(p.tracks[k])]]

\* Pattern.__getitem__(slice(i, j)): a new Pattern of the same track objects.
Pattern_getslice(p, i, j) ==
    PatternWith(SubSeq(p.tracks, i + 1, j), p.resolution, p.frmt, TRUE)

\* Track.__getitem__(slice(i, j)): Track(events), a new Track of the same
\* event objects with the default tick_relative.
Track_getslice(track, i, j) == TrackWith(SubSeq(track.events, i + 1, j), TRUE)

\* The delta or absolute times the events of the tracks are given.
TickInputs == {0, 480}
TickEvents == {MkEvent(tick, 144, 0, <<60, 100>>) : tick \in TickInputs}
TrackInputs ==
    {TrackWith(events, f) : events \in BoundedSeq(TickEvents, MaxTickEvents),
                            f \in BOOLEAN}

\* A call of a conversion: target 0 is the pattern, target k > 0 its k-th track.
Call(op, target) == [op |-> op, target |-> target]

\* Pattern(tracks=..., tick_relative=...)
NewPattern ==
    /\ pc = "idle"
    /\ cpat = NoPattern
    /\ \E tracks \in BoundedSeq(TrackInputs, MaxTickTracks), f \in BOOLEAN :
          cpat' = PatternWith(tracks, 220, 1, f)
    /\ corig' = cpat'
    /\ chist' = <<>>
    /\ UNCHANGED <<codecVars, vl, registryVars, gsVars, objectVars>>

\* pattern.append(Track(...))
PatternAppend ==
    /\ cpat # NoPattern
    /\ Len(cpat.tracks) < MaxTickTracks
    /\ \E track \in TrackInputs :
          cpat' = [cpat EXCEPT !.tracks = Append(@, track)]
    /\ corig' = cpat'
    /\ chist' = <<>>
    /\ UNCHANGED <<codecVars, vl, registryVars, gsVars, objectVars>>

\* pattern = pattern[i:j]
PatternGetSlice ==
    /\ cpat # NoPattern
    /\ \E i \in 0..Len(cpat.tracks) : \E j \in i..Len(cpat.tracks) :
          cpat' = Pattern_getslice(cpat, i, j)
    /\ corig' = cpat'
    /\ chist' = <<>>
    /\ UNCHANGED <<codecVars, vl, registryVars, gsVars, objectVars>>

\* pattern[k] = pattern[k][i:j], for a track whose ticks are within MaxTick.
TrackGetSlice ==
    /\ cpat # NoPattern
    /\ \E k \in 1..Len(cpat.tracks) :
          /\ \A n \in 1..Len(cpat.tracks[k].events) :
                cpat.tracks[k].events[n].tick \in (0 - MaxTick)..MaxTick
          /\ \E i \in 0..Len(cpat.tracks[k].events) : \E j \in i..Len(cpat.tracks[k].events) :
                cpat' = [cpat EXCEPT !.tracks[k] = Track_getslice(@, i, j)]
    /\ corig' = cpat'
    /\ chist' = <<>>
    /\ UNCHANGED <<codecVars, vl, registryVars, gsVars, objectVars>>

PatternMakeTicksAbs ==
    /\ cpat # NoPattern
    /\ Len(chist) < MaxCalls
    /\ cpat' = Pattern_make_ticks_abs(cpat)
    /\ chist' = Append(chist, Call("abs", 0))
    /\ UNCHANGED <<codecVars, vl, corig, registryVars, gsVars, objectVars>>

PatternMakeTicksRel ==
    /\ cpat # NoPattern
    /\ Len(chist) < MaxCalls
    /\ cpat' = Pattern_make_ticks_rel(cpat)
    /\ chist' = Append(chist, Call("rel", 0))
    /\ UNCHANGED <<codecVars, vl, corig, registryVars, gsVars, objectVars>>

\* pattern[k].make_ticks_abs()
TrackMakeTicksAbs ==
    /\ cpat # NoPattern
    /\ Len(chist) < MaxCalls
    /\ \E k \in 1..Len(cpat.tracks) :
          /\ cpat' = [cpat EXCEPT !.tracks[k] = Track_make_ticks_abs(@)]
          /\ chist' = Append(chist, Call("abs", k))
    /\ UNCHANGED <<codecVars, vl, corig, registryVars, gsVars, objectVars>>

\* pattern[k].make_ticks_rel()
TrackMakeTicksRel ==
    /\ cpat # NoPattern
    /\ Len(chist) < MaxCalls
    /\ \E k \in 1..Len(cpat.tracks) :
          /\ cpat' = [cpat EXCEPT !.tracks[k] = Track_make_ticks_rel(@)]
          /\ chist' = Append(chist, Call("rel", k))
    /\ UNCHANGED <<codecVars, vl, corig, registryVars, gsVars, objectVars>>

\* pattern.make_ticks_abs() on the pattern that is going to be written.
MakeTicksAbs ==
    /\ pc = "idle"
    /\ pattern' = Pattern_make_ticks_abs(pattern)
    /\ UNCHANGED <<handle, pc, midifile, origin, writerVars, readerVars, vl, otherVars>>

\* pattern.make_ticks_rel() on the pattern that is going to be written.
MakeTicksRel ==
    /\ pc = "idle"
    /\ pattern' = Pattern_make_ticks_rel(pattern)
    /\ UNCHANGED <<handle, pc, midifile, origin, writerVars, readerVars, vl, otherVars>>

\* A pattern is built, converted and written.
NextWriteTicks ==
    \/ AppendTrack
    \/ AppendEvent
    \/ MakeTicksAbs
    \/ MakeTicksRel
    \/ WriteFileHeader
    \/ WriteTrack
    \/ WriteReturn

SpecWriteTicks == Init /\ [][NextWriteTicks]_vars

\* A pattern is constructed, changed and converted.
NextTicks ==
    \/ NewPattern
    \/ PatternAppend
    \/ PatternGetSlice
    \/ PatternMakeTicksAbs
    \/ PatternMakeTicksRel
    \/ TrackMakeTicksAbs
    \/ TrackMakeTicksRel

SpecTicks == Init /\ [][NextTicks]_vars

\* A pattern is constructed, sliced, and the slices are converted.
NextSlices ==
    \/ NewPattern
    \/ PatternAppend
    \/ PatternGetSlice
    \/ TrackGetSlice
    \/ TrackMakeTicksAbs
    \/ TrackMakeTicksRel

SpecSlices == Init /\ [][NextSlices]_vars

(***************************************************************************)
(* EVENTS: the class statements of the module and of the application, and  *)
(* the registration the metaclass performs for each of them.               *)
(***************************************************************************)

\* The class statements of midiio.py, in the order of the file.
Catalogue ==
    << MkClass(1, "AbstractEvent", {"object"}, 0, None),
       MkClass(2, "Event", {"AbstractEvent"}, 0, None),
       MkClass(3, "MetaEvent", {"AbstractEvent"}, 255, 0),
       MkClass(4, "NoteEvent", {"Event"}, 0, None),
       MkClass(5, "NoteOnEvent", {"NoteEvent"}, 144, None),
       MkClass(6, "NoteOffEvent", {"NoteEvent"}, 128, None),
       MkClass(7, "AfterTouchEvent", {"Event"}, 160, None),
       MkClass(8, "ControlChangeEvent", {"Event"}, 176, None),
       MkClass(9, "ProgramChangeEvent", {"Event"}, 192, None),
       MkClass(10, "ChannelAfterTouchEvent", {"Event"}, 208, None),
       MkClass(11, "PitchWheelEvent", {"Event"}, 224, None),
       MkClass(12, "SysexEvent", {"Event"}, 240, None),
       MkClass(13, "SequenceNumberMetaEvent", {"MetaEvent"}, 255, 0),
       MkClass(14, "MetaEventWithText", {"MetaEvent"}, 255, 0),
       MkClass(15, "TextMetaEvent", {"MetaEventWithText"}, 255, 1),
       MkClass(16, "CopyrightMetaEvent", {"MetaEventWithText"}, 255, 2),
       MkClass(17, "TrackNameEvent", {"MetaEventWithText"}, 255, 3),
       MkClass(18, "InstrumentNameEvent", {"MetaEventWithText"}, 255, 4),
       MkClass(19, "LyricsEvent", {"MetaEventWithText"}, 255, 5),
       MkClass(20, "MarkerEvent", {"MetaEventWithText"}, 255, 6),
       MkClass(21, "CuePointEvent", {"MetaEventWithText"}, 255, 7),
       MkClass(22, "ProgramNameEvent", {"MetaEventWithText"}, 255, 8),
       MkClass(23, "UnknownMetaEvent", {"MetaEvent"}, 255, None),
       MkClass(24, "ChannelPrefixEvent", {"MetaEvent"}, 255, 32),
       MkClass(25, "PortEvent", {"MetaEvent"}, 255, 33),
       MkClass(26, "TrackLoopEvent", {"MetaEvent"}, 255, 46),
       MkClass(27, "EndOfTrackEvent", {"MetaEvent"}, 255, 47),
       MkClass(28, "SetTempoEvent", {"MetaEvent"}, 255, 81),
       MkClass(29, "SmpteOffsetEvent", {"MetaEvent"}, 255, 84),
       MkClass(30, "TimeSignatureEvent", {"MetaEvent"}, 255, 88),
       MkClass(31, "KeySignatureEvent", {"MetaEvent"}, 255, 89),
       MkClass(32, "SequencerSpecificEvent", {"MetaEvent"}, 255, 127) >>

\* d[k] = v on a dictionary.
DictSet(d, k, v) == [x \in DOMAIN d \cup {k} |-> IF x = k THEN v ELSE d[x]]

\* A register_event without the two assert statements.
register_event_NoAssert(Evs, Metas, event, bases) ==
    IF "Event" \in bases \/ "NoteEvent" \in bases
    THEN [Events |-> DictSet(Evs, event.statusmsg, event), MetaEvents |-> Metas,
          err |-> ""]
    ELSE IF "MetaEvent" \in bases \/ "MetaEventWithText" \in bases
    THEN IF event.metacommand # None
         THEN [Events |-> Evs, MetaEvents |-> DictSet(Metas, event.metacommand, event),
               err |-> ""]
         ELSE [Events |-> Evs, MetaEvents |-> Metas, err |-> ""]
    ELSE [Events |-> Evs, MetaEvents |-> Metas, err |-> "ValueError"]

\* EventRegistry.register_event on the dictionaries Evs and Metas: the
\* dictionaries afterwards and the exception raised ("" for none).
register_event(Evs, Metas, event, bases) ==
    IF "Event" \in bases \/ "NoteEvent" \in bases
    THEN IF event.statusmsg \in DOMAIN Evs
         THEN [Events |-> Evs, MetaEvents |-> Metas, err |-> "AssertionError"]
         ELSE [Events |-> DictSet(Evs, event.statusmsg, event), MetaEvents |-> Metas,
               err |-> ""]
    ELSE IF "MetaEvent" \in bases \/ "MetaEventWithText" \in bases
    THEN IF event.metacommand # None
         THEN IF event.metacommand \in DOMAIN Metas
              THEN [Events |-> Evs, MetaEvents |-> Metas, err |-> "AssertionError"]
              ELSE [Events |-> Evs,
                    MetaEvents |-> DictSet(Metas, event.metacommand, event),
                    err |-> ""]
         ELSE [Events |-> Evs, MetaEvents |-> Metas, err |-> ""]
    ELSE [Events |-> Evs, MetaEvents |-> Metas, err |-> "ValueError"]

\* The names the metaclass does not register.
Unregistered == {"AbstractEvent", "Event", "MetaEvent", "NoteEvent", "MetaEventWithText"}

\* AbstractEvent.__metaclass__.__init__(cls, name, bases, dict)
metaclass_init(Evs, Metas, cls) ==
    IF cls.name \notin Unregistered
    THEN register_event(Evs, Metas, cls, cls.bases)
    ELSE [Events |-> Evs, MetaEvents |-> Metas, err |-> ""]

\* A class statement: the metaclass runs, and the class exists afterwards
\* unless the metaclass raised.
ClassStatement(cls) ==
    LET r == metaclass_init(regEvents, regMetaEvents, cls)
    IN  /\ regEvents' = r.Events
        /\ regMetaEvents' = r.MetaEvents
        /\ classes' = IF r.err = "" THEN Append(classes, cls) ELSE classes
        /\ regtry' = [cls |-> cls, err |-> r.err, Events |-> regEvents,
                      MetaEvents |-> regMetaEvents]

\* import midiio: the next class statement of the module.
LoadClass ==
    /\ regtry.cls.serial < Len(Catalogue)
    /\ ClassStatement(Catalogue[regtry.cls.serial + 1])
    /\ UNCHANGED <<codecVars, vl, containerVars, gsVars, objectVars>>

\* The bases and the codes of the classes the application defines: taken
\* and free status codes and meta-commands.
ExtraBases == {{"Event"}, {"NoteEvent"}, {"MetaEvent"}, {"MetaEventWithText"},
               {"NoteOnEvent"}}
ExtraStatus == {16, 144, 240}
ExtraMeta == {None, 47, 96}

\* The application defines an event class of its own.
DefineClass ==
    /\ regtry.cls.serial >= Len(Catalogue)
    /\ regtry.cls.serial < Len(Catalogue) + MaxExtraClasses
    /\ \E bases \in ExtraBases, statusmsg \in ExtraStatus, metacommand \in ExtraMeta :
          ClassStatement(MkClass(regtry.cls.serial + 1, "ExtraEvent", bases,
                                 statusmsg, metacommand))
    /\ UNCHANGED <<codecVars, vl, containerVars, gsVars, objectVars>>

\* The module is imported and the application defines classes.
NextRegistry ==
    \/ LoadClass
    \/ DefineClass

SpecRegistry == Init /\ [][NextRegistry]_vars

(***************************************************************************)
(* gspattern.py: Event and Pattern, the events of a pattern with their     *)
(* tags.  Times are whole numbers of beats.                                *)
(***************************************************************************)

\* A str is the sequence of its characters; a tag is a str or a tuple of
\* str.
Str(chars) == [kind |-> "str", val |-> chars]
Tuple(items) == [kind |-> "tuple", val |-> items]

\* Event(startTime, duration, pitch, velocity, tag)
GsEvent(startTime, duration, pitch, velocity, tag) ==
    [startTime |-> startTime, duration |-> duration, pitch |-> pitch,
     velocity |-> velocity, tag |-> tag]

\* t in tag: a substring of a str, an item of a tuple.
TagIn(t, tag) ==
    IF tag.kind = "str"
    THEN t.kind = "str"
         /\ \E i \in 1..Len(tag.val) + 1 :
               /\ i + Len(t.val) - 1 <= Len(tag.val)
               /\ SubSeq(tag.val, i, i + Len(t.val) - 1) = t.val
    ELSE \E i \in 1..Len(tag.val) : tag.val[i] = t

\* Event.hasOneOfTags(tags) of an event with the given tag.
hasOneOfTags(tag, tags) ==
    \E n \in 1..Len(tags) : tags[n] = tag \/ TagIn(tags[n], tag)

\* list.sort(key=startTime): a stable sort, by insertion.
RECURSIVE InsertByStartTime(_, _)
InsertByStartTime(sorted, e) ==
    IF sorted = <<>> \/ sorted[Len(sorted)].startTime <= e.startTime
    THEN Append(sorted, e)
    ELSE Append(InsertByStartTime(SubSeq(sorted, 1, Len(sorted) - 1), e),
                sorted[Len(sorted)])

RECURSIVE reorderEvents(_)
reorderEvents(events) ==
    IF events = <<>> THEN <<>>
    ELSE InsertByStartTime(reorderEvents(SubSeq(events, 1, Len(events) - 1)),
                           events[Len(events)])

\* Pattern.lastNoteOff: the events as it leaves them, and what it returns.
lastNoteOff(events) ==
    IF Len(events) > 0
    THEN LET sorted == reorderEvents(events)
         IN  [events |-> sorted,
              total |-> sorted[Len(sorted)].duration + sorted[Len(sorted)].startTime]
    ELSE [events |-> events, total |-> None]

\* Pattern.durationToLastEvent(onlyIfBigger=True)
durationToLastEvent(p) ==
    LET r == lastNoteOff(p.events)
    IN  IF r.total # None /\ r.total # 0 /\ r.total > p.duration
        THEN [duration |-> r.total, events |-> r.events]
        ELSE [duration |-> p.duration, events |-> r.events]

\* Pattern.addEvent(myEvent)
addEvent(p, myEvent) ==
    durationToLastEvent([p EXCEPT !.events = Append(@, myEvent)])

\* del events[i] for the indices of idxToRemove from position n on, one
\* after the other; i counts from 0.
RECURSIVE DeleteEach(_, _, _)
DeleteEach(events, idxToRemove, n) ==
    IF n > Len(idxToRemove) THEN [events |-> events, err |-> ""]
    ELSE LET i == idxToRemove[n]
         IN  IF i >= Len(events)
             THEN [events |-> events, err |-> "IndexError"]
             ELSE DeleteEach(SubSeq(events, 1, i) \o SubSeq(events, i + 2, Len(events)),
                             idxToRemove, n + 1)

\* The indices, from 0, of the events equal to event, in order.
RECURSIVE IndicesOf(_, _, _)
IndicesOf(events, event, idx) ==
    IF idx >= Len(events) THEN <<>>
    ELSE (IF event = events[idx + 1] THEN <<idx>> ELSE <<>>)
             \o IndicesOf(events, event, idx + 1)

\* Pattern.removeEvent(event)
removeEvent(events, event) == DeleteEach(events, IndicesOf(events, event, 0), 1)

\* The loop of removeByTags: the list iterator is at index i, from 0, of the
\* list the loop body changes.
RECURSIVE removeByTags_loop(_, _, _)
removeByTags_loop(events, i, tags) ==
    IF i >= Len(events) THEN [events |-> events, err |-> ""]
    ELSE IF hasOneOfTags(events[i + 1].tag, tags)
         THEN LET r == removeEvent(events, events[i + 1])
              IN  IF r.err # "" THEN r
                  ELSE removeByTags_loop(r.events, i + 1, tags)
         ELSE removeByTags_loop(events, i + 1, tags)

\* Pattern.removeByTags(tags)
removeByTags(events, tags) == removeByTags_loop(events, 0, tags)

\* The tags and the events of the application.
hat == Str(<<"h", "a", "t">>)
ohat == Str(<<"o", "h", "a", "t">>)
TagInputs == {hat, ohat, Tuple(<<hat>>)}
TagLists == {<<hat>>, <<ohat>>}
DurationInputs == {3, 6}
MaxSilenceInputs == {0, 1, 2}
GsEventInputs ==
    {GsEvent(startTime, duration, 60, 80, tag) :
        startTime \in {0, 1}, duration \in {1, 4}, tag \in TagInputs}

\* The pattern is as its constructor and addEvent made it: the calls below
\* are made on such a pattern.
Built == gcall.op \in {"", "Pattern", "addEvent"}

\* pattern.addEvent(e)
GsAddEvent ==
    /\ Built
    /\ Len(gpat.events) < MaxGsEvents
    /\ \E e \in GsEventInputs :
          /\ gpat' = addEvent(gpat, e)
          /\ gcall' = [NoCall EXCEPT !.op = "addEvent", !.before = gpat.events]
    /\ UNCHANGED <<codecVars, vl, containerVars, registryVars, objectVars>>

\* pattern.removeByTags(tags)
GsRemoveByTags ==
    /\ Built
    /\ gpat.events # <<>>
    /\ \E tags \in TagLists :
          LET r == removeByTags(gpat.events, tags)
          IN  /\ gpat' = [gpat EXCEPT !.events = r.events]
              /\ gcall' = [NoCall EXCEPT !.op = "removeByTags", !.tags = tags,
                                         !.before = gpat.events, !.err = r.err]
    /\ UNCHANGED <<codecVars, vl, containerVars, registryVars, objectVars>>

RECURSIVE SilencesBetween(_, _, _, _, _)

\* Silences that are all as long as the gap they fill.
SilencesBetween_Whole(lastOff, target, maxSilenceTime, silTag, silPitch) ==
    <<GsEvent(lastOff, target - lastOff, silPitch, 0, silTag)>>

\* The silence events that fill the time from lastOff to target: while the
\* gap is longer than a positive maxSilenceTime, silences of maxSilenceTime,
\* and then one silence for what is left.
SilencesBetween(lastOff, target, maxSilenceTime, silTag, silPitch) ==
    IF maxSilenceTime > 0 /\ target - lastOff > maxSilenceTime
    THEN <<GsEvent(lastOff, maxSilenceTime, silPitch, 0, silTag)>>
             \o SilencesBetween(lastOff + maxSilenceTime, target, maxSilenceTime,
                                silTag, silPitch)
    ELSE <<GsEvent(lastOff, target - lastOff, silPitch, 0, silTag)>>

Max(a, b) == IF a > b THEN a ELSE b

\* _fillListWithSilence of fillWithSilences, from event i of the sorted
\* events on.
RECURSIVE fillListWithSilence_loop(_, _, _, _, _, _, _, _)
fillListWithSilence_loop(events, duration, maxSilenceTime, silTag, silPitch, i, lastOff, newEvents) ==
    IF i > Len(events)
    THEN IF lastOff < duration
         THEN newEvents \o SilencesBetween(lastOff, duration, maxSilenceTime,
                                           silTag, silPitch)
         ELSE newEvents
    ELSE LET e == events[i]
             gap == IF e.startTime > lastOff
                    THEN SilencesBetween(lastOff, e.startTime, maxSilenceTime,
                                         silTag, silPitch)
                    ELSE <<>>
         IN  fillListWithSilence_loop(events, duration, maxSilenceTime, silTag,
                                      silPitch, i + 1,
                                      Max(lastOff, e.startTime + e.duration),
                                      newEvents \o gap \o <<e>>)

silence == Str(<<"s", "i", "l", "e", "n", "c", "e">>)

\* Pattern.fillWithSilences(maxSilenceTime, perTag=False)
fillWithSilences(p, maxSilenceTime) ==
    [p EXCEPT !.events = fillListWithSilence_loop(reorderEvents(p.events), p.duration,
                                                  maxSilenceTime, silence, 0, 1, 0, <<>>)]

\* The inner loop of removeOverlapped for the event e at position idx of the
\* sorted events, from position i on: e as the loop leaves it, found, and
\* how many times e was put on newList.
RECURSIVE overlapped_scan(_, _, _, _, _)
overlapped_scan(events, i, e, found, appended) ==
    IF i > Len(events) THEN [e |-> e, found |-> found, appended |-> appended]
    ELSE LET ee == events[i]
             hit == /\ ee.tag = e.tag
                    /\ ee.startTime >= e.startTime
                    /\ ee.startTime < e.startTime + e.duration
             cut == hit /\ ee.startTime - e.startTime > 0
             e2 == IF cut THEN [e EXCEPT !.duration = ee.startTime - e.startTime] ELSE e
             n2 == IF cut THEN appended + 1 ELSE appended
         IN  IF ee.startTime > e2.startTime + e2.duration
             THEN [e |-> e2, found |-> found \/ hit, appended |-> n2]
             ELSE overlapped_scan(events, i + 1, e2, found \/ hit, n2)

\* idx repeated n times.
RECURSIVE Repeat(_, _)
Repeat(idx, n) == IF n = 0 THEN <<>> ELSE <<idx>> \o Repeat(idx, n - 1)

\* The outer loop of removeOverlapped from position idx of the sorted events
\* on: the events with the durations the loop gave them, and newList as the
\* positions of its event objects.
RECURSIVE removeOverlapped_loop(_, _, _)
removeOverlapped_loop(events, idx, newList) ==
    IF idx > Len(events) THEN [events |-> events, newList |-> newList]
    ELSE LET r == overlapped_scan(events, idx + 1, events[idx], FALSE, 0)
         IN  removeOverlapped_loop([events EXCEPT ![idx] = r.e], idx + 1,
                                   newList \o Repeat(idx, r.appended)
                                           \o (IF r.found THEN <<>> ELSE <<idx>>))

\* Pattern.removeOverlapped(usePitchValues=False)
removeOverlapped(events) == removeOverlapped_loop(reorderEvents(events), 1, <<>>)

\* Pattern(duration=d)
GsNewPattern ==
    /\ gpat = NoGsPattern
    /\ gcall = NoCall
    /\ \E d \in DurationInputs :
          gpat' = [duration |-> d, events |-> <<>>]
    /\ gcall' = [NoCall EXCEPT !.op = "Pattern"]
    /\ UNCHANGED <<codecVars, vl, containerVars, registryVars, objectVars>>

\* pattern.removeEvent(ev)
GsRemoveEvent ==
    /\ Built
    /\ gpat.events # <<>>
    /\ \E ev \in GsEventInputs :
          LET r == removeEvent(gpat.events, ev)
          IN  /\ gpat' = [gpat EXCEPT !.events = r.events]
              /\ gcall' = [NoCall EXCEPT !.op = "removeEvent", !.event = ev,
                                         !.before = gpat.events, !.err = r.err]
    /\ UNCHANGED <<codecVars, vl, containerVars, registryVars, objectVars>>

\* pattern.fillWithSilences(maxSilenceTime=m)
GsFillWithSilences ==
    /\ Built
    /\ \E m \in MaxSilenceInputs :
          /\ gpat' = fillWithSilences(gpat, m)
          /\ gcall' = [NoCall EXCEPT !.op = "fillWithSilences", !.m = m,
                                     !.before = gpat.events]
    /\ UNCHANGED <<codecVars, vl, containerVars, registryVars, objectVars>>

\* pattern.removeOverlapped()
GsRemoveOverlapped ==
    /\ Built
    /\ gpat.events # <<>>
    /\ LET r == removeOverlapped(gpat.events)
       IN  /\ gpat' = [gpat EXCEPT !.events =
                          [k \in 1..Len(r.newList) |-> r.events[r.newList[k]]]]
           /\ gcall' = [NoCall EXCEPT !.op = "removeOverlapped", !.ids = r.newList,
                                      !.before = gpat.events]
    /\ UNCHANGED <<codecVars, vl, containerVars, registryVars, objectVars>>

\* A pattern is made, events are added to it and removed, its gaps are
\* filled and its overlaps removed.
NextGs ==
    \/ GsNewPattern
    \/ GsAddEvent
    \/ GsRemoveByTags
    \/ GsRemoveEvent
    \/ GsFillWithSilences
    \/ GsRemoveOverlapped

SpecGs == Init /\ [][NextGs]_vars

(***************************************************************************)
(* EVENT OBJECTS: note events and the lists their data attributes refer    *)
(* to.                                                                     *)
(***************************************************************************)
\* An event object; data is a reference to a list of heap.
NoteObject(tick, channel, data) == [tick |-> tick, channel |-> channel, data |-> data]

\* Event.copy(): self.__class__(channel=self.channel, tick=self.tick,
\* data=self.data), and AbstractEvent.__init__ sets each keyword as an
\* attribute: the data attribute of the new event refers to the list passed.
Event_copy(event) == NoteObject(event.tick, event.channel, event.data)

\* NoteEvent.set_pitch: self.data[0] = val.
set_pitch(h, event, val) == [h EXCEPT ![event.data][1] = val]

\* NoteEvent.set_velocity: self.data[1] = val.
set_velocity(h, event, val) == [h EXCEPT ![event.data][2] = val]

PitchInputs == {60, 61}
VelocityInputs == {0, 100}

\* The payload of each event object.
Payloads == [i \in 1..Len(objs) |-> heap[objs[i].data]]

Access(op, target) == [op |-> op, target |-> target, before |-> Payloads]

\* NoteOnEvent(tick=0, data=[pitch, velocity]): the list is a new object.
NewNoteEvent ==
    /\ Len(objs) < MaxObjects
    /\ \E pitch \in PitchInputs, velocity \in VelocityInputs :
          heap' = Append(heap, <<pitch, velocity>>)
    /\ objs' = Append(objs, NoteObject(0, 0, Len(heap) + 1))
    /\ ecall' = Access("NoteOnEvent", Len(objs) + 1)
    /\ UNCHANGED <<codecVars, vl, containerVars, registryVars, gsVars>>

\* event.copy()
EventCopy ==
    /\ Len(objs) < MaxObjects
    /\ \E i \in 1..Len(objs) :
          /\ objs' = Append(objs, Event_copy(objs[i]))
          /\ ecall' = Access("copy", i)
    /\ UNCHANGED <<heap, codecVars, vl, containerVars, registryVars, gsVars>>

\* event.pitch = val
SetPitch ==
    /\ \E i \in 1..Len(objs), val \in PitchInputs :
          /\ heap' = set_pitch(heap, objs[i], val)
          /\ ecall' = Access("set_pitch", i)
    /\ UNCHANGED <<objs, codecVars, vl, containerVars, registryVars, gsVars>>

\* event.velocity = val
SetVelocity ==
    /\ \E i \in 1..Len(objs), val \in VelocityInputs :
          /\ heap' = set_velocity(heap, objs[i], val)
          /\ ecall' = Access("set_velocity", i)
    /\ UNCHANGED <<objs, codecVars, vl, containerVars, registryVars, gsVars>>

\* Note events are created, copied and changed through their accessors.
NextObjects ==
    \/ NewNoteEvent
    \/ EventCopy
    \/ SetPitch
    \/ SetVelocity

SpecObjects == Init /\ [][NextObjects]_vars

(***************************************************************************)
(* Properties.                                                             *)
(***************************************************************************)
TwoTo28 == 128 * 128 * 128 * 128

\* A valid event: tick below 2^28; a channel event on channel 0..15 with
\* exactly its kind's number of data bytes, each 0..127; meta payload bytes
\* 0..255; sysex payload bytes 0..255 without 0xF7.
ValidEvent(e) ==
    /\ e.tick \in 0..(TwoTo28 - 1)
    /\ IsChannelEvent(e) =>
          /\ e.channel \in 0..15
          /\ Len(e.data) = Events[e.statusmsg]
          /\ \A i \in 1..Len(e.data) : e.data[i] \in 0..127
    /\ IsMetaEvent(e) => \A i \in 1..Len(e.data) : e.data[i] \in 0..255
    /\ IsSysexEvent(e) => \A i \in 1..Len(e.data) : e.data[i] \in 0..255 \ {247}

ValidTrack(t) == \A i \in 1..Len(t.events) : ValidEvent(t.events[i])
ValidPattern(p) == \A i \in 1..Len(p.tracks) : ValidTrack(p.tracks[i])

SameEvent(a, b) ==
    /\ a.tick = b.tick
    /\ a.cls = b.cls
    /\ a.statusmsg = b.statusmsg
    /\ a.metacommand = b.metacommand
    /\ a.channel = b.channel
    /\ a.data = b.data

SameEvents(s, t) ==
    /\ Len(s) = Len(t)
    /\ \A i \in 1..Len(s) : SameEvent(s[i], t[i])

ReadBack == pc = "returned" /\ origin = "written"

\* C1: a pattern of valid tracks that was written and read back comes back
\* with, track by track, the same number of events and position by position
\* the same tick, kind, channel and payload.
C1_RoundTrip ==
    (ReadBack /\ ValidPattern(pattern)) =>
        /\ rresult = "ok"
        /\ Len(rret.tracks) = Len(pattern.tracks)
        /\ \A i \in 1..Len(pattern.tracks) :
              SameEvents(rret.tracks[i].events, pattern.tracks[i].events)

C1_Witness ==
    /\ ReadBack /\ ValidPattern(pattern) /\ rresult = "ok"
    /\ \E i \in 1..Len(pattern.tracks) :
          LET ev == pattern.tracks[i].events
          IN  /\ Len(ev) >= 3
              /\ \E a, b, c \in 1..Len(ev) :
                    /\ IsChannelEvent(ev[a]) /\ IsMetaEvent(ev[b]) /\ IsSysexEvent(ev[c])
                    /\ ev[a].tick > 0

\* The smallest number of 7-bit groups that hold v.
MinGroups(v) ==
    IF v < 128 THEN 1 ELSE IF v < 16384 THEN 2 ELSE IF v < 2097152 THEN 3 ELSE 4

\* C2: for 0 <= v < 2^28, read_varlen(write_varlen(v)) = v, consuming all
\* the bytes, and write_varlen(v) is minimal: MinGroups(v) bytes, no leading
\* bare 0x80, the high bit set on every byte but the last.
C2_VarlenRoundTrip ==
    (pc = "varlen_read" /\ vl.value < TwoTo28) =>
        /\ ~vl.stop
        /\ vl.back = vl.value
        /\ vl.read = Len(vl.bytes)
        /\ Len(vl.bytes) = MinGroups(vl.value)
        /\ vl.bytes[1] # 128
        /\ \A i \in 1..(Len(vl.bytes) - 1) : vl.bytes[i] >= 128
        /\ vl.bytes[Len(vl.bytes)] < 128

C2_Witness ==
    /\ pc = "varlen_read"
    /\ vl.value = TwoTo28 - 1
    /\ vl.bytes = <<255, 255, 255, 127>>
    /\ vl.back = vl.value

\* The running status of the writer before event i of a track, and the
\* bytes the writer emits for event i.
RunningStatusBefore(events, i) ==
    write_track_loop(SubSeq(events, 1, i - 1), 1, <<>>, NoEvent).RunningStatus

EventBytes(events, i) == encode_midi_event(events[i], RunningStatusBefore(events, i)).bytes

WithStatus(e) == write_varlen(e.tick) \o <<e.statusmsg + e.channel>> \o e.data
WithoutStatus(e) == write_varlen(e.tick) \o e.data

SameKindAndChannel(a, b) ==
    /\ IsChannelEvent(a) /\ IsChannelEvent(b)
    /\ a.statusmsg = b.statusmsg /\ a.channel = b.channel

\* The last channel event before position i of a track, 0 when none.
RECURSIVE PrevChannel(_, _)
PrevChannel(events, i) ==
    IF i <= 1 THEN 0
    ELSE IF IsChannelEvent(events[i - 1]) THEN i - 1
    ELSE PrevChannel(events, i - 1)

\* The consecutive pairs of channel events with the same kind and channel:
\* <<track, position of the first>>.
SamePairs ==
    {<<t, i>> \in (1..Len(pattern.tracks)) \X (1..MaxEvents + 1) :
        /\ i < Len(pattern.tracks[t].events)
        /\ SameKindAndChannel(pattern.tracks[t].events[i],
                              pattern.tracks[t].events[i + 1])}

\* Both events of the pair were decoded with their tick, kind, channel and
\* payload (for a read of the written pattern, whose events are all valid).
PairDecoded(t, i) ==
    (ReadBack /\ ValidPattern(pattern)) =>
        /\ rresult = "ok"
        /\ SameEvent(rret.tracks[t].events[i], pattern.tracks[t].events[i])
        /\ SameEvent(rret.tracks[t].events[i + 1], pattern.tracks[t].events[i + 1])

\* C3 as claimed: of two consecutive channel events with the same kind and
\* channel the first is written with its status byte and the second
\* without, and both are decoded with their kind and channel.
C3_Claimed ==
    (wresult = "ok") =>
        \A p \in SamePairs :
            LET ev == pattern.tracks[p[1]].events
                i == p[2]
            IN  /\ EventBytes(ev, i) = WithStatus(ev[i])
                /\ EventBytes(ev, i + 1) = WithoutStatus(ev[i + 1])
                /\ PairDecoded(p[1], i)

\* C3 (amended): of two consecutive channel events with the same kind and
\* channel the second is written without its status byte; the first is
\* written with its status byte exactly when it is the first channel event
\* of the track or the last channel event before it differs in kind or
\* channel; both are decoded with their kind and channel.
C3_RunningStatus ==
    (wresult = "ok") =>
        \A p \in SamePairs :
            LET ev == pattern.tracks[p[1]].events
                i == p[2]
                j == PrevChannel(ev, i)
            IN  /\ IF j = 0 \/ ~SameKindAndChannel(ev[j], ev[i])
                   THEN EventBytes(ev, i) = WithStatus(ev[i])
                   ELSE EventBytes(ev, i) = WithoutStatus(ev[i])
                /\ EventBytes(ev, i + 1) = WithoutStatus(ev[i + 1])
                /\ PairDecoded(p[1], i)

C3_Witness ==
    /\ ReadBack /\ ValidPattern(pattern) /\ rresult = "ok"
    /\ \E t \in 1..Len(pattern.tracks) :
          LET ev == pattern.tracks[t].events
          IN  /\ Len(ev) >= 3
              /\ SameKindAndChannel(ev[2], ev[3])
              /\ IsChannelEvent(ev[1]) /\ ~SameKindAndChannel(ev[1], ev[2])
              /\ Len(rret.tracks[t].events) = 3

\* The track chunk of a hand-made file: the length its header declares and
\* the bytes that follow the header.
RawDeclared == UnpackL(SubSeq(midifile, 19, 22))
RawBody == SubSeq(midifile, 23, Len(midifile))
RawRead == pc = "returned" /\ origin = "raw"

\* The body of the track is exactly one meta event with an unregistered
\* command byte: delta-time, 0xFF, command, length, that many bytes.
OneUnknownMeta ==
    /\ RawDeclared = Len(RawBody)
    /\ LET t == read_varlen(RawBody, 0)
       IN  /\ ~t.stop
           /\ t.pos + 2 <= Len(RawBody)
           /\ RawBody[t.pos + 1] = 255
           /\ RawBody[t.pos + 2] \notin MetaEvents
           /\ LET l == read_varlen(RawBody, t.pos + 2)
              IN  ~l.stop /\ l.pos + l.value = Len(RawBody)

\* The delta-time and the length of that event are minimal VarLens.
MinimalVarlens ==
    LET t == read_varlen(RawBody, 0)
        l == read_varlen(RawBody, t.pos + 2)
    IN  /\ SubSeq(RawBody, 1, t.pos) = write_varlen(t.value)
        /\ SubSeq(RawBody, t.pos + 3, l.pos) = write_varlen(l.value)

UnknownMetaRetained ==
    LET t == read_varlen(RawBody, 0)
        l == read_varlen(RawBody, t.pos + 2)
    IN  /\ rresult = "ok"
        /\ Len(rret.tracks) = 1
        /\ Len(rret.tracks[1].events) = 1
        /\ LET e == rret.tracks[1].events[1]
           IN  /\ e.cls = "UnknownMetaEvent"
               /\ e.metacommand = RawBody[t.pos + 2]
               /\ e.tick = t.value
               /\ e.data = SubSeq(RawBody, l.pos + 1, Len(RawBody))

Reencoded == write_track_loop(rret.tracks[1].events, 1, <<>>, NoEvent).buf

\* C4 as claimed: a meta event with an unregistered command decodes, without
\* failure, to an UnknownMetaEvent with the command, tick and payload, and
\* re-encoding it gives the bytes that were decoded.
C4_Claimed ==
    (RawRead /\ OneUnknownMeta) => (UnknownMetaRetained /\ Reencoded = RawBody)

\* C4 (amended): such an event decodes, without failure, to an
\* UnknownMetaEvent with the command, tick and payload; re-encoding it gives
\* the bytes that were decoded when its delta-time and its length were
\* written as minimal VarLens (of at most four bytes).
C4_UnknownMeta ==
    (RawRead /\ OneUnknownMeta) =>
        /\ UnknownMetaRetained
        /\ MinimalVarlens => Reencoded = RawBody

C4_Witness ==
    /\ RawRead /\ OneUnknownMeta /\ MinimalVarlens
    /\ rresult = "ok"
    /\ rret.tracks[1].events[1].metacommand = 124
    /\ Len(rret.tracks[1].events[1].data) >= 1
    /\ Reencoded = RawBody

\* C5 as claimed: a track header that declares more bytes than remain in the
\* file makes read fail; no pattern is returned.
C5_Claimed ==
    (RawRead /\ RawDeclared > Len(RawBody)) => (rresult = "error" /\ rret = NoPattern)

\* C6 as claimed: when the bytes of a track run out in the middle of an
\* event, read fails; the events parsed so far are not returned.
C6_Claimed ==
    (pc = "returned" /\ rtrunc) => (rresult = "error" /\ rret = NoPattern)

\* C7 as claimed: write_varlen fails for every value of 2^28 or more, and
\* returns no bytes for it.
C7_Claimed ==
    (pc = "varlen" /\ vl.value >= TwoTo28) => (vl.raised /\ vl.bytes = <<>>)

\* C8 as claimed: a write that met a channel event whose data list has not
\* its kind's length has failed.
C8_Claimed ==
    (wresult = "ok") =>
        \A t \in 1..Len(pattern.tracks) :
            \A i \in 1..Len(pattern.tracks[t].events) :
                LET e == pattern.tracks[t].events[i]
                IN  IsChannelEvent(e) => Len(e.data) = Events[e.statusmsg]

\* After only meta and sysex events (if any) from position pos, the bytes
\* of a track have, where the status byte is expected, a byte with the top
\* bit clear.
RECURSIVE DataByteBeforeStatus(_, _)
DataByteBeforeStatus(data, pos) ==
    LET r == parse_midi_event(data, pos, None)
        t == read_varlen(data, pos)
    IN  IF r.status = "event" /\ ~IsChannelEvent(r.event)
        THEN DataByteBeforeStatus(data, r.pos)
        ELSE ~t.stop /\ t.pos < Len(data) /\ data[t.pos + 1] < 128

RawAvailable == SubSeq(RawBody, 1, Min(RawDeclared, Len(RawBody)))

\* C9: when the decoder meets a byte with the top bit clear where a status
\* byte is expected and no status byte was seen in the track, read fails and
\* returns no pattern.
C9_MissingRunningStatus ==
    (RawRead /\ DataByteBeforeStatus(RawAvailable, 0)) =>
        /\ rresult = "error"
        /\ rret = NoPattern

C9_Witness ==
    /\ RawRead /\ DataByteBeforeStatus(RawAvailable, 0)
    /\ Len(rpattern.tracks[1].events) >= 1
    /\ rresult = "error"

\* The number of tracks the file header declares.
DeclaredTracks == UnpackH(SubSeq(midifile, 11, 12))

BadTrackMagic(k) ==
    LET off == ChunkOffset(midifile, k)
    IN  off >= 0 /\ FileRead(midifile, off, 4) # MTrk

\* C10: read fails and returns no pattern when the file does not start with
\* MThd, and when a track chunk does not start with MTrk.
C10_BadMagic ==
    (pc = "returned"
        /\ (\/ FileRead(midifile, 0, 4) # MThd
            \/ \E k \in 1..DeclaredTracks : BadTrackMagic(k))) =>
        /\ rresult = "error"
        /\ rret = NoPattern

C10_Witness ==
    /\ pc = "returned" /\ origin = "damaged"
    /\ FileRead(midifile, 0, 4) = MThd
    /\ BadTrackMagic(2)
    /\ Len(rpattern.tracks[1].events) >= 2
    /\ rresult = "error"

\* The consecutive pairs of channel events that differ in kind or channel.
DiffPairs ==
    {<<t, i>> \in (1..Len(pattern.tracks)) \X (1..MaxEvents + 1) :
        /\ i < Len(pattern.tracks[t].events)
        /\ IsChannelEvent(pattern.tracks[t].events[i])
        /\ IsChannelEvent(pattern.tracks[t].events[i + 1])
        /\ ~SameKindAndChannel(pattern.tracks[t].events[i],
                               pattern.tracks[t].events[i + 1])}

\* The event bytes of track chunk k of the file.
TrackBody(k) ==
    LET off == ChunkOffset(midifile, k)
    IN  SubSeq(midifile, off + 9, off + 8 + UnpackL(SubSeq(midifile, off + 5, off + 8)))

\* The scenario: note-on (channel 0, pitch 60, velocity 100) at tick 0 and
\* note-off (channel 0, pitch 60, velocity 0) 480 ticks later.
NoteOnOff == <<MkEvent(0, 144, 0, <<60, 100>>), MkEvent(480, 128, 0, <<60, 0>>)>>
NoteOnOffBytes == <<0, 144, 60, 100, 131, 96, 128, 60, 0>>

ScenarioWritten ==
    (wresult = "ok" /\ Len(pattern.tracks) = 1 /\ pattern.tracks[1].events = NoteOnOff)
        => TrackBody(1) = NoteOnOffBytes

\* C11 as claimed: of two consecutive channel events that differ in kind or
\* channel each is written with its status byte; the note-on/note-off track
\* is written as 00 90 3C 64 83 60 80 3C 00.
C11_Claimed ==
    /\ (wresult = "ok") =>
           \A p \in DiffPairs :
               LET ev == pattern.tracks[p[1]].events
                   i == p[2]
               IN  /\ EventBytes(ev, i) = WithStatus(ev[i])
                   /\ EventBytes(ev, i + 1) = WithStatus(ev[i + 1])
    /\ ScenarioWritten

\* C11 (amended): of two consecutive channel events that differ in kind or
\* channel the second is written with its status byte, and the first is
\* written with its status byte exactly when it is the first channel event
\* of the track or the last channel event before it differs from it in kind
\* or channel; the note-on/note-off track is written as
\* 00 90 3C 64 83 60 80 3C 00.
C11_FullStatus ==
    /\ (wresult = "ok") =>
           \A p \in DiffPairs :
               LET ev == pattern.tracks[p[1]].events
                   i == p[2]
                   j == PrevChannel(ev, i)
               IN  /\ IF j = 0 \/ ~SameKindAndChannel(ev[j], ev[i])
                      THEN EventBytes(ev, i) = WithStatus(ev[i])
                      ELSE EventBytes(ev, i) = WithoutStatus(ev[i])
                   /\ EventBytes(ev, i + 1) = WithStatus(ev[i + 1])
    /\ ScenarioWritten

C11_Witness ==
    /\ wresult = "ok"
    /\ Len(pattern.tracks) = 1
    /\ pattern.tracks[1].events = NoteOnOff
    /\ TrackBody(1) = NoteOnOffBytes

\* The ticks of the events of a track, in order.
Ticks(track) == [i \in 1..Len(track.events) |-> track.events[i].tick]

RECURSIVE SumUpTo(_, _)
SumUpTo(ticks, i) == IF i = 0 THEN 0 ELSE SumUpTo(ticks, i - 1) + ticks[i]

NonNegative(ticks) == \A i \in 1..Len(ticks) : ticks[i] >= 0
NonDecreasing(ticks) == \A i \in 1..Len(ticks) - 1 : ticks[i] <= ticks[i + 1]

\* The call is made on track k or on the pattern that holds it.
Covers(call, k) == call.target \in {0, k}

\* The calls made so far are op1 then op2, each on track k or on the pattern.
CalledOn(k, ops) ==
    /\ k \in 1..Len(cpat.tracks)
    /\ Len(chist) = Len(ops)
    /\ \A n \in 1..Len(ops) : chist[n].op = ops[n] /\ Covers(chist[n], k)

\* C12: for a track in relative mode with non-negative ticks make_ticks_abs
\* followed by make_ticks_rel restores every tick; for a track in absolute
\* mode with non-decreasing ticks make_ticks_rel followed by make_ticks_abs
\* restores every tick; after make_ticks_abs every tick is the sum of the
\* original deltas up to and including that event.
C12_Invertible ==
    \A k \in 1..Len(cpat.tracks) :
        /\ (/\ CalledOn(k, <<"abs", "rel">>)
            /\ corig.tracks[k].tick_relative
            /\ NonNegative(Ticks(corig.tracks[k])))
               => Ticks(cpat.tracks[k]) = Ticks(corig.tracks[k])
        /\ (/\ CalledOn(k, <<"rel", "abs">>)
            /\ ~corig.tracks[k].tick_relative
            /\ NonDecreasing(Ticks(corig.tracks[k])))
               => Ticks(cpat.tracks[k]) = Ticks(corig.tracks[k])
        /\ (/\ CalledOn(k, <<"abs">>)
            /\ corig.tracks[k].tick_relative
            /\ NonNegative(Ticks(corig.tracks[k])))
               => \A i \in 1..Len(cpat.tracks[k].events) :
                      cpat.tracks[k].events[i].tick = SumUpTo(Ticks(corig.tracks[k]), i)

\* A relative track of two non-zero deltas was made absolute and relative
\* again.
C12_Witness ==
    /\ CalledOn(1, <<"abs", "rel">>)
    /\ corig.tracks[1].tick_relative
    /\ Ticks(corig.tracks[1]) = <<480, 480>>
    /\ Ticks(cpat.tracks[1]) = <<480, 480>>

\* The ticks of a track in absolute and in relative mode, from the ticks and
\* the mode it was given in.
AbsTicksOf(track) ==
    IF track.tick_relative
    THEN [i \in 1..Len(track.events) |-> SumUpTo(Ticks(track), i)]
    ELSE Ticks(track)

RelTicksOf(track) ==
    IF track.tick_relative
    THEN Ticks(track)
    ELSE [i \in 1..Len(track.events) |->
             IF i = 1 THEN track.events[1].tick
             ELSE track.events[i].tick - track.events[i - 1].tick]

LastCall == chist[Len(chist)]

\* The ticks depend only on the target mode of the last call.
ByLastCall ==
    chist # <<>> =>
        \A k \in 1..Len(cpat.tracks) :
            Covers(LastCall, k) =>
                Ticks(cpat.tracks[k]) =
                    IF LastCall.op = "abs" THEN AbsTicksOf(corig.tracks[k])
                    ELSE RelTicksOf(corig.tracks[k])

\* A conversion that repeats the call before it leaves the pattern as it was.
RepeatedCall ==
    (/\ chist # <<>>
     /\ Len(chist') = Len(chist) + 1
     /\ chist'[Len(chist')] = LastCall)
        => cpat' = cpat

\* C13: calling make_ticks_abs on a track or pattern several times in a row
\* leaves every tick as it was after the first call, and likewise for
\* make_ticks_rel; in any sequence of conversion calls the ticks depend only
\* on the target mode of the last call.
C13_Idempotent == []ByLastCall /\ [][RepeatedCall]_vars

\* make_ticks_abs was called twice in a row on a relative track of two
\* non-zero deltas.
C13_Witness ==
    /\ CalledOn(1, <<"abs", "abs">>)
    /\ corig.tracks[1].tick_relative
    /\ Ticks(corig.tracks[1]) = <<480, 480>>
    /\ Ticks(cpat.tracks[1]) = <<480, 960>>

\* C18 as claimed: in every reachable state of a Pattern the tick_relative
\* flag of every track it holds equals the pattern's own tick_relative flag.
C18_Claimed ==
    \A k \in 1..Len(cpat.tracks) :
        cpat.tracks[k].tick_relative = cpat.tick_relative

\* The class goes through the channel branch or the meta branch of
\* register_event.
ChannelKind(c) ==
    /\ c.name \notin Unregistered
    /\ "Event" \in c.bases \/ "NoteEvent" \in c.bases

MetaKind(c) ==
    /\ c.name \notin Unregistered
    /\ ~("Event" \in c.bases \/ "NoteEvent" \in c.bases)
    /\ "MetaEvent" \in c.bases \/ "MetaEventWithText" \in c.bases
    /\ c.metacommand # None

\* Every class statement of the module has run.
RegistryBuilt == regtry.cls.serial >= Len(Catalogue)

\* Every registered code is the code of exactly one of the existing kinds,
\* and that kind is the one found under it.
OneKindPerCode ==
    /\ \A code \in DOMAIN regEvents :
          {c \in {classes[i] : i \in 1..Len(classes)} :
              ChannelKind(c) /\ c.statusmsg = code} = {regEvents[code]}
    /\ \A code \in DOMAIN regMetaEvents :
          {c \in {classes[i] : i \in 1..Len(classes)} :
              MetaKind(c) /\ c.metacommand = code} = {regMetaEvents[code]}
    /\ \A i \in 1..Len(classes) :
          /\ ChannelKind(classes[i]) =>
                /\ classes[i].statusmsg \in DOMAIN regEvents
                /\ regEvents[classes[i].statusmsg] = classes[i]
          /\ MetaKind(classes[i]) =>
                /\ classes[i].metacommand \in DOMAIN regMetaEvents
                /\ regMetaEvents[classes[i].metacommand] = classes[i]

\* The last class statement tried to register a kind under a taken code.
CodeTaken ==
    \/ ChannelKind(regtry.cls) /\ regtry.cls.statusmsg \in DOMAIN regtry.Events
    \/ MetaKind(regtry.cls) /\ regtry.cls.metacommand \in DOMAIN regtry.MetaEvents

\* C14: after the registry is built every channel status code and every
\* meta-command byte maps to exactly one event kind; registering a second
\* kind under a taken code fails at registration time and leaves the
\* existing entry in place.
C14_Registry ==
    /\ RegistryBuilt => OneKindPerCode
    /\ (RegistryBuilt /\ regtry.cls.serial = Len(Catalogue)) =>
           /\ DOMAIN regEvents = DOMAIN Events
           /\ DOMAIN regMetaEvents = MetaEvents
    /\ CodeTaken =>
           /\ regtry.err = "AssertionError"
           /\ regEvents = regtry.Events
           /\ regMetaEvents = regtry.MetaEvents
           /\ \A i \in 1..Len(classes) : classes[i] # regtry.cls

\* The application tried to register a second kind under the status of
\* NoteOnEvent.
C14_Witness ==
    /\ RegistryBuilt
    /\ CodeTaken
    /\ regtry.cls.statusmsg = 144
    /\ regtry.err = "AssertionError"
    /\ regEvents[144].name = "NoteOnEvent"

\* C15 as claimed: the file write_midifile or read_midifile opened is closed
\* when the call has returned, and also when it has ended with an error.
C15_Claimed ==
    /\ (pc = "file" /\ wresult = "ok") => handle = "closed"
    /\ (pc = "returned") => handle = "closed"

\* The bytes of the events 1..i of a track, one event after the other.
RECURSIVE EventBytesUpTo(_, _)
EventBytesUpTo(events, i) ==
    IF i = 0 THEN <<>> ELSE EventBytesUpTo(events, i - 1) \o EventBytes(events, i)

Written == wresult = "ok" /\ origin = "written"

\* C16: the output of write starts with 'MThd', header length 6, the
\* pattern's format, a track count equal to the number of tracks and the
\* resolution; then comes one 'MTrk' chunk per track in pattern order, whose
\* 32-bit length is exactly the number of event bytes that follow in the
\* chunk; nothing follows the last chunk.
C16_Framing ==
    Written =>
        /\ SubSeq(midifile, 1, 4) = <<77, 84, 104, 100>>
        /\ UnpackL(SubSeq(midifile, 5, 8)) = 6
        /\ UnpackH(SubSeq(midifile, 9, 10)) = pattern.frmt
        /\ UnpackH(SubSeq(midifile, 11, 12)) = Len(pattern.tracks)
        /\ UnpackH(SubSeq(midifile, 13, 14)) = pattern.resolution
        /\ \A k \in 1..Len(pattern.tracks) :
              LET off == ChunkOffset(midifile, k)
                  body == EventBytesUpTo(pattern.tracks[k].events,
                                         Len(pattern.tracks[k].events))
              IN  /\ off >= 14
                  /\ SubSeq(midifile, off + 1, off + 4) = <<77, 84, 114, 107>>
                  /\ UnpackL(SubSeq(midifile, off + 5, off + 8)) = Len(body)
                  /\ SubSeq(midifile, off + 9, off + 8 + Len(body)) = body
        /\ ChunkOffset(midifile, Len(pattern.tracks) + 1) = Len(midifile)

\* A pattern of two tracks with events was written.
C16_Witness ==
    /\ Written
    /\ Len(pattern.tracks) = 2
    /\ pattern.tracks[1].events # <<>>
    /\ pattern.tracks[2].events # <<>>
    /\ ChunkOffset(midifile, 2) > 22
    /\ ChunkOffset(midifile, 3) = Len(midifile)

\* Track k of the pattern has a channel event, and i is the first.
FirstChannelEvent(k, i) ==
    /\ i \in 1..Len(pattern.tracks[k].events)
    /\ IsChannelEvent(pattern.tracks[k].events[i])
    /\ PrevChannel(pattern.tracks[k].events, i) = 0

\* The two track bodies of a hand-made file of two tracks.
FirstBody == SubSeq(midifile, 23, ChunkOffset(midifile, 2))
SecondBody == SubSeq(midifile, ChunkOffset(midifile, 2) + 9, Len(midifile))

\* The reader is behind the second track of a file of two tracks whose first
\* track set a status.
SecondTrackRead ==
    /\ origin = "raw2"
    /\ FirstBody = <<0, 128, 0, 0>>
    /\ rresult = "error" \/ ri > 2

\* C17: running status never crosses a track boundary.  The first channel
\* event of every track is written with its status byte whatever the tracks
\* before it hold, and a data byte in status position at the start of a
\* later track is rejected even if an earlier track set a status.
C17_PerTrack ==
    /\ Written =>
          \A k \in 1..Len(pattern.tracks) : \A i \in 1..Len(pattern.tracks[k].events) :
              FirstChannelEvent(k, i) =>
                  LET ev == pattern.tracks[k].events
                      at == Len(EventBytesUpTo(ev, i - 1))
                      e == WithStatus(ev[i])
                  IN  FileRead(TrackBody(k), at, Len(e)) = e
    /\ (SecondTrackRead /\ DataByteBeforeStatus(SecondBody, 0)) =>
          /\ rresult = "error"
          /\ rret = NoPattern
          /\ ri = 2
          /\ Len(rpattern.tracks[1].events) = 1

\* A file whose second track begins with a data byte, after a first track
\* that holds a note-off with its status byte, was read.
C17_Witness ==
    /\ SecondTrackRead
    /\ FileRead(SecondBody, 0, 3) = <<0, 1, 1>>
    /\ rresult = "error"

\* C19 as claimed: after addEvent, and after any sequence of addEvent calls,
\* the duration of the pattern is at least the end time (startTime +
\* duration) of every event the pattern holds.
C19_Claimed ==
    gcall.op = "addEvent" =>
        \A i \in 1..Len(gpat.events) :
            gpat.duration >= gpat.events[i].startTime + gpat.events[i].duration

\* C20 as claimed: after removeByTags(tags) no event left in the pattern has
\* one of the given tags, as hasOneOfTags decides, and every event that has
\* none of the given tags is still in the pattern.
C20_Claimed ==
    gcall.op = "removeByTags" =>
        /\ gcall.err = ""
        /\ \A i \in 1..Len(gpat.events) : ~hasOneOfTags(gpat.events[i].tag, gcall.tags)
        /\ \A i \in 1..Len(gcall.before) :
              ~hasOneOfTags(gcall.before[i].tag, gcall.tags) =>
                  \E j \in 1..Len(gpat.events) : gpat.events[j] = gcall.before[i]

\* The events of a list that are not equal to ev, in their order.
RECURSIVE Without(_, _)
Without(events, ev) ==
    IF events = <<>> THEN <<>>
    ELSE (IF events[1] = ev THEN <<>> ELSE <<events[1]>>)
             \o Without(SubSeq(events, 2, Len(events)), ev)

\* C21 as claimed: removeEvent(ev) does not fail, whatever the number and
\* the positions of the events equal to ev; afterwards no event equal to ev
\* remains and every other event is still there in its original order.
C21_Claimed ==
    gcall.op = "removeEvent" =>
        /\ gcall.err = ""
        /\ gpat.events = Without(gcall.before, gcall.event)

\* How many times an event is in a list.
CountOf(events, e) == Cardinality({i \in 1..Len(events) : events[i] = e})

Covered(t) ==
    \E i \in 1..Len(gpat.events) :
        /\ gpat.events[i].startTime <= t
        /\ t < gpat.events[i].startTime + gpat.events[i].duration

IsSilence(e) == e.tag = silence /\ e.velocity = 0 /\ e.pitch = 0

\* C22: after fillWithSilences (perTag false, start times not negative)
\* every instant of [0, duration) is covered by an event, the original
\* events are all still present, and with maxSilenceTime = m > 0 no inserted
\* silence is longer than m.
C22_Filled ==
    gcall.op = "fillWithSilences" =>
        /\ \A t \in 0..gpat.duration - 1 : Covered(t)
        /\ \A i \in 1..Len(gcall.before) :
              CountOf(gpat.events, gcall.before[i]) = CountOf(gcall.before, gcall.before[i])
        /\ \A i \in 1..Len(gpat.events) :
              (gcall.m > 0 /\ IsSilence(gpat.events[i])) => gpat.events[i].duration <= gcall.m

\* A pattern of duration 6 with one event from 1 to 2 was filled with
\* silences of at most 2: one before the event and two after it.
C22_Witness ==
    /\ gcall.op = "fillWithSilences"
    /\ gcall.m = 2
    /\ gpat.duration = 6
    /\ Len(gcall.before) = 1
    /\ gcall.before[1].startTime = 1 /\ gcall.before[1].duration = 1
    /\ Len(gpat.events) = 4
    /\ IsSilence(gpat.events[4]) /\ gpat.events[4].startTime = 4

\* C23 as claimed: after removeOverlapped (usePitchValues false) no two
\* distinct events with the same tag overlap, and no event object occurs
\* twice in the list.
C23_Claimed ==
    gcall.op = "removeOverlapped" =>
        /\ \A i, j \in 1..Len(gpat.events) :
              (i # j /\ gpat.events[i].tag = gpat.events[j].tag) =>
                  ~(/\ gpat.events[i].startTime <= gpat.events[j].startTime
                    /\ gpat.events[j].startTime
                           < gpat.events[i].startTime + gpat.events[i].duration)
        /\ \A i, j \in 1..Len(gcall.ids) : i # j => gcall.ids[i] # gcall.ids[j]


(***************************************************************************)
(* Sysex decoding.                                                         *)
(***************************************************************************)
\* parse_track has been called on the track of a file that begins with a
\* sysex lead byte.
SysexTrackRead ==
    /\ origin = "sysex"
    /\ pc \in {"read", "returned"}
    /\ (ri = 2 \/ rresult = "error")

\* The index of the first 0xF7 after the lead byte of the track (the lead
\* byte is the second byte of the body), 0 when there is none.
FirstF7(body) ==
    IF \E i \in 3..Len(body) : body[i] = 247
    THEN CHOOSE i \in 3..Len(body) :
             body[i] = 247 /\ \A j \in 3..i - 1 : body[j] # 247
    ELSE 0

\* C24: the payload of a decoded sysex event is the bytes strictly between
\* the 0xF0 lead byte and the first following 0xF7, and the next event's
\* delta-time is read from the byte right after that 0xF7: bytes 1, 0xC0, 1
\* after the terminator are read as a program change at delta-time 1.
C24_Sysex ==
    (SysexTrackRead /\ FirstF7(RawBody) # 0) =>
        LET k == FirstF7(RawBody)
            events == rpattern.tracks[1].events
        IN  /\ Len(events) >= 1
            /\ events[1] = MkSysexEvent(0, SubSeq(RawBody, 3, k - 1))
            /\ Len(events) >= 2 => events[2].tick = read_varlen(RawBody, k).value
            /\ FileRead(RawBody, k, 3) = <<1, 192, 1>> =>
                  /\ Len(events) >= 2
                  /\ events[2] = MkEvent(1, 192, 0, <<1>>)

\* A sysex event with a payload, followed by a program change, was read.
C24_Witness ==
    /\ SysexTrackRead
    /\ FirstF7(RawBody) >= 4
    /\ Len(rpattern.tracks[1].events) >= 2
    /\ rpattern.tracks[1].events[2] = MkEvent(1, 192, 0, <<1>>)


(***************************************************************************)
(* Meta and sysex events and the running status.                           *)
(***************************************************************************)
\* The bytes of event i of a track: a meta or sysex event with its lead
\* byte, a channel event without its status byte exactly when the last
\* channel event before it has its kind and channel.
LeadBytes(events, i) ==
    LET e == events[i]
        j == PrevChannel(events, i)
    IN  IF IsMetaEvent(e)
        THEN write_varlen(e.tick) \o <<255, e.metacommand>>
                 \o write_varlen(Len(e.data)) \o e.data
        ELSE IF IsSysexEvent(e)
        THEN write_varlen(e.tick) \o <<240>> \o e.data \o <<247>>
        ELSE IF j # 0 /\ SameKindAndChannel(events[j], e)
        THEN WithoutStatus(e)
        ELSE WithStatus(e)

RECURSIVE LeadBytesUpTo(_, _)
LeadBytesUpTo(events, i) ==
    IF i = 0 THEN <<>> ELSE LeadBytesUpTo(events, i - 1) \o LeadBytes(events, i)

\* The last channel event of a track, 0 when it has none.
LastChannel(events) == PrevChannel(events, Len(events) + 1)

\* A channel event stands right after a meta or sysex event and has the
\* kind and channel of the last channel event before it.
AcrossMeta(events) ==
    \E i \in 3..Len(events) :
        /\ IsChannelEvent(events[i])
        /\ ~IsChannelEvent(events[i - 1])
        /\ PrevChannel(events, i) # 0
        /\ SameKindAndChannel(events[PrevChannel(events, i)], events[i])

\* C25: meta and sysex events are written with their lead byte and leave
\* the running status of writer and reader as it was: every track body is
\* the bytes of its events with each channel event compressed against the
\* last channel event before it, the writer ends a track with the status of
\* its last channel event, and the reader decodes every event of a valid
\* track and ends it with the status byte of its last channel event.
C25_LeadByte ==
    /\ Written =>
          \A k \in 1..Len(pattern.tracks) :
              LET off == ChunkOffset(midifile, k)
                  ev == pattern.tracks[k].events
                  body == LeadBytesUpTo(ev, Len(ev))
              IN  FileRead(midifile, off + 8, Len(midifile)) =
                      body \o FileRead(midifile, off + 8 + Len(body), Len(midifile))
    /\ (pc = "write" /\ wi >= 2) =>
          LET ev == pattern.tracks[wi - 1].events
              j == LastChannel(ev)
          IN  IF j = 0 THEN wRunningStatus = NoEvent
              ELSE /\ wRunningStatus # NoEvent
                   /\ SameKindAndChannel(wRunningStatus, ev[j])
    /\ (origin = "written" /\ pc \in {"read", "returned"} /\ ri >= 2
          /\ ValidPattern(pattern)) =>
          LET ev == pattern.tracks[ri - 1].events
              j == LastChannel(ev)
          IN  /\ SameEvents(rpattern.tracks[ri - 1].events, ev)
              /\ rRunningStatus = IF j = 0 THEN None
                                  ELSE ev[j].statusmsg + ev[j].channel

\* A track with a channel event compressed across a meta or sysex event was
\* written and read back.
C25_Witness ==
    /\ ReadBack /\ rresult = "ok" /\ ValidPattern(pattern)
    /\ \E t \in 1..Len(pattern.tracks) : AcrossMeta(pattern.tracks[t].events)


(***************************************************************************)
(* The ticks the writer emits.                                             *)
(***************************************************************************)
\* The events of a track with the tick deltas since the previous event of
\* the track, whatever mode the track is in.
DeltaEvents(track) ==
    IF track.tick_relative THEN track.events
    ELSE [i \in 1..Len(track.events) |->
             [track.events[i] EXCEPT
                 !.tick = @ - (IF i = 1 THEN 0 ELSE track.events[i - 1].tick)]]

\* C26 as claimed: every track chunk holds, for every event, the VarLen
\* encoding of the event's tick delta since the previous event of the
\* track, in relative and in absolute mode alike.
C26_Claimed ==
    Written =>
        \A k \in 1..Len(pattern.tracks) :
            LET off == ChunkOffset(midifile, k)
                ev == DeltaEvents(pattern.tracks[k])
                body == EventBytesUpTo(ev, Len(ev))
            IN  FileRead(midifile, off + 8, Len(midifile)) =
                    body \o FileRead(midifile, off + 8 + Len(body), Len(midifile))


(***************************************************************************)
(* The padding of the file header.                                         *)
(***************************************************************************)
\* The headerLength field of the file.
HeaderLength == UnpackL(FileRead(midifile, 4, 4))

\* C27 as claimed: after parse_file_header the file stands at offset
\* 8 + headerLength, where the magic of the first track is read, for every
\* headerLength >= 6; the track header of a file with a padded header is
\* found.
C27_Claimed ==
    /\ (origin = "header" /\ pc = "read" /\ ri = 1) => fpos = 8 + HeaderLength
    /\ (origin = "header" /\ pc = "returned") => rresult = "ok"


(***************************************************************************)
(* Copies of events.                                                       *)
(***************************************************************************)
\* C28 as claimed: a change of a payload byte of one event through the
\* pitch or velocity accessor leaves the payload of every other event, the
\* event it was copied from and its copies among them, unchanged.
C28_Claimed ==
    ecall.op \in {"set_pitch", "set_velocity"} =>
        \A j \in 1..Len(objs) :
            j # ecall.target => Payloads[j] = ecall.before[j]


(***************************************************************************)
(* Slices.                                                                 *)
(***************************************************************************)
\* A step that replaces the pattern, or one of its tracks, by a slice of it.
SliceStep == PatternGetSlice \/ TrackGetSlice

\* C29 as claimed: a slice of a Pattern has the tick_relative flag of the
\* pattern and a slice of a Track the flag of the track.
C29_Claimed ==
    [][SliceStep =>
          /\ cpat'.tick_relative = cpat.tick_relative
          /\ \A k \in 1..Len(cpat.tracks) :
                (Len(cpat'.tracks) = Len(cpat.tracks)) =>
                    cpat'.tracks[k].tick_relative = cpat.tracks[k].tick_relative]_vars


(***************************************************************************)
(* Termination of the reader.                                              *)
(***************************************************************************)
\* The values FileReader.RunningStatus can have at a call of
\* parse_midi_event: None, or a status byte of a one-byte kind, of a
\* two-byte kind, or of the 0xF0 family.
StatusInputs == {None, 128, 192, 241}

\* Every call of parse_midi_event on the data of the track, at any position
\* and with any running status, returns an event after consuming at least
\* one byte and no more bytes than the data has, or ends the track.
Progress ==
    origin = "short" =>
        \A pos \in 0..Len(RawBody), rs \in StatusInputs :
            LET r == parse_midi_event(RawBody, pos, rs)
            IN  \/ r.status = "event" /\ r.pos > pos /\ r.pos <= Len(RawBody)
                \/ r.status \in {"stop", "error"}

\* C30: decoding terminates: each call of parse_midi_event consumes at
\* least one byte of the track's data or ends the track, and read_midifile,
\* once it has the file, returns a pattern or fails.
C30_Terminates ==
    (pc = "file") ~> (pc = "returned" /\ rresult \in {"ok", "error"} /\ Progress)

\* A short file whose track holds an event was read to its end.
C30_Witness ==
    /\ origin = "short"
    /\ pc = "returned"
    /\ rresult = "ok"
    /\ Len(rret.tracks[1].events) >= 1

====
